---- MODULE Spec2Model ----
(***************************************************************************)
(* Puzzle NFT program (Solana / Anchor).                                   *)
(*                                                                         *)
(* Two programs live in the repository and both are modelled:              *)
(*   - the attribute program (instructions/mint_puzzle_nft.rs and          *)
(*     instructions/solve_puzzle.rs): the puzzle is kept in the ordered    *)
(*     key/value attribute list of a Metaplex Core asset;                  *)
(*   - the account program (lib.rs): the puzzle is kept in a PuzzleNFT     *)
(*     account.                                                            *)
(*                                                                         *)
(* Data representation.                                                    *)
(*   u64      : 8 bytes, little endian, <<b0, ..., b7>>, each in 0..255.   *)
(*              Arithmetic is done on the bytes so that the full 64-bit    *)
(*              width is kept (wrapping, overflow detection).              *)
(*   String   : a sequence of one-character strings; "186" is              *)
(*              <<"1","8","6">>.  Formatting and parsing work on the       *)
(*              characters.  Attribute keys are literals of the program    *)
(*              and are only compared for equality: they stay TLA+ strings.*)
(*   Pubkey   : an element of Identities; its Display form and its leading *)
(*              eight bytes are given by tables over that finite set.      *)
(*   i64      : an integer (the timestamps used stay far from the limits). *)
(***************************************************************************)
EXTENDS Integers, Sequences, FiniteSets, Bags

(***************************************************************************)
(* u64 arithmetic on little-endian bytes                                   *)
(***************************************************************************)
Zeros(n) == [i \in 1..n |-> 0]

RECURSIVE NatToBytes(_, _)
NatToBytes(n, k) ==
    IF k = 0 THEN <<>> ELSE <<n % 256>> \o NatToBytes(n \div 256, k - 1)

\* The u64 holding the natural number n (n below 2^31).
U64(n) == NatToBytes(n, 8)

U64Max == [i \in 1..8 |-> 255]

IsZero(x) == \A i \in 1..Len(x) : x[i] = 0

\* The value of x as an integer, for x below 2^23.
Small(x) == x[1] + 256 * x[2] + 65536 * x[3]
IsSmall(x) == x[3] < 128 /\ \A i \in 4..Len(x) : x[i] = 0

RECURSIVE AddBytes(_, _, _)
\* x + y + c on equal-length byte strings, the carry out of the top dropped.
AddBytes(x, y, c) ==
    IF x = <<>> THEN <<>>
    ELSE LET s == Head(x) + Head(y) + c
         IN  <<s % 256>> \o AddBytes(Tail(x), Tail(y), s \div 256)

RECURSIVE SubBytes(_, _, _)
\* x - y - b on equal-length byte strings, modulo 256^Len(x).
SubBytes(x, y, b) ==
    IF x = <<>> THEN <<>>
    ELSE LET d == Head(x) - Head(y) - b
         IN  <<d % 256>> \o SubBytes(Tail(x), Tail(y), IF d < 0 THEN 1 ELSE 0)

RECURSIVE CmpBytes(_, _)
\* -1, 0 or 1 as x is below, equal to or above y.
CmpBytes(x, y) ==
    IF x = <<>> THEN 0
    ELSE LET hi == CmpBytes(Tail(x), Tail(y))
         IN  IF hi # 0 THEN hi
             ELSE IF Head(x) < Head(y) THEN -1
             ELSE IF Head(x) > Head(y) THEN 1 ELSE 0

RECURSIVE MulByteCarry(_, _, _)
\* y * b + c for a byte b: Len(y) + 1 bytes.
MulByteCarry(y, b, c) ==
    IF y = <<>> THEN <<c>>
    ELSE LET p == Head(y) * b + c
         IN  <<p % 256>> \o MulByteCarry(Tail(y), b, p \div 256)

RECURSIVE FullMulFrom(_, _, _)
FullMulFrom(x, y, i) ==
    IF i > 8 THEN Zeros(16)
    ELSE IF x[i] = 0 THEN FullMulFrom(x, y, i + 1)
    ELSE AddBytes(Zeros(i - 1) \o MulByteCarry(y, x[i], 0) \o Zeros(8 - i),
                  FullMulFrom(x, y, i + 1), 0)

\* The exact 128-bit product of two u64.
FullMul(x, y) == FullMulFrom(x, y, 1)

\* u64::wrapping_mul, u64::wrapping_add.
wrapping_mul(x, y) == SubSeq(FullMul(x, y), 1, 8)
wrapping_add(x, y) == AddBytes(x, y, 0)

\* Does x * y leave the 64 bits?
MulOverflows(x, y) == ~IsZero(SubSeq(FullMul(x, y), 9, 16))

Pow2(k) == CASE k = 0 -> 1 [] k = 1 -> 2 [] k = 2 -> 4 [] k = 3 -> 8
             [] k = 4 -> 16 [] k = 5 -> 32 [] k = 6 -> 64 [] k = 7 -> 128

Bit(x, i) == (x[(i \div 8) + 1] \div Pow2(i % 8)) % 2

RECURSIVE TopBit(_, _)
\* The index of the highest set bit of x at or below i, -1 when there is none.
TopBit(x, i) == IF i < 0 THEN -1 ELSE IF Bit(x, i) = 1 THEN i ELSE TopBit(x, i - 1)

RECURSIVE RemFrom(_, _, _, _)
\* Binary long division: r is the remainder of the bits of x above bit i.
\* With r < d, 2r + b >= d iff r >= d - r - b, which stays inside 64 bits.
RemFrom(x, d, i, r) ==
    IF i < 0 THEN r
    ELSE LET b == Bit(x, i)
             t == SubBytes(SubBytes(d, r, 0), U64(b), 0)
             r2 == IF CmpBytes(r, t) >= 0 THEN SubBytes(r, t, 0)
                   ELSE AddBytes(r, r, b)
         IN  IF Len(r2) = 8 THEN RemFrom(x, d, i - 1, r2) ELSE r2

RECURSIVE DivSmall(_, _)
\* Quotient and remainder of a byte string by a positive integer below 2^23.
DivSmall(x, d) ==
    IF x = <<>> THEN [q |-> <<>>, r |-> 0]
    ELSE LET hi == DivSmall(Tail(x), d)
             cur == hi.r * 256 + Head(x)
         IN  [q |-> <<cur \div d>> \o hi.q, r |-> cur % d]

\* x % d on u64, d nonzero: by bytes for a divisor below 2^23, by bits otherwise.
Rem(x, d) ==
    IF CmpBytes(x, d) < 0 THEN x
    ELSE IF IsSmall(d) THEN U64(DivSmall(x, Small(d)).r)
    ELSE RemFrom(x, d, TopBit(x, 63), U64(0))

RECURSIVE XorNat(_, _, _)
XorNat(a, b, k) ==
    IF k = 0 THEN 0
    ELSE (IF a % 2 = b % 2 THEN 0 ELSE 1) + 2 * XorNat(a \div 2, b \div 2, k - 1)

\* u64 ^ u64.
Xor(x, y) == [i \in 1..8 |-> XorNat(x[i], y[i], 8)]

(***************************************************************************)
(* Strings: formatting and parsing                                         *)
(***************************************************************************)
HexChars == <<"0","1","2","3","4","5","6","7","8","9","a","b","c","d","e","f">>
DecChars == <<"0","1","2","3","4","5","6","7","8","9">>

RECURSIVE Digits(_, _)
\* The digits of x in the given base, most significant first; empty for 0.
Digits(x, base) ==
    IF IsZero(x) THEN <<>>
    ELSE LET qr == DivSmall(x, base)
         IN  Digits(qr.q, base) \o <<HexChars[qr.r + 1]>>

\* u64::to_string (Display): decimal, no leading zeros.
to_string(x) == IF IsZero(x) THEN <<"0">> ELSE Digits(x, 10)

\* format!("{:x}", u64): lowercase hexadecimal, no prefix, no leading zeros.
FormatHex(x) == IF IsZero(x) THEN <<"0">> ELSE Digits(x, 16)

\* i64::to_string of an integer.
I64ToString(t) ==
    IF t < 0 THEN <<"-">> \o to_string(U64(-t)) ELSE to_string(U64(t))

DigitValue(c) == CHOOSE d \in 0..9 : DecChars[d + 1] = c
IsDigit(c) == \E d \in 0..9 : DecChars[d + 1] = c

RECURSIVE ParseDigits(_, _)
\* Accumulates decimal digits into acc; fails on a non-digit and on overflow.
ParseDigits(s, acc) ==
    IF s = <<>> THEN [ok |-> TRUE, val |-> acc]
    ELSE IF ~IsDigit(Head(s)) THEN [ok |-> FALSE, val |-> U64(0)]
    ELSE LET m == MulByteCarry(acc, 10, 0)
             a == AddBytes(m, U64(DigitValue(Head(s))) \o <<0>>, 0)
         IN  IF a[9] # 0 THEN [ok |-> FALSE, val |-> U64(0)]
             ELSE ParseDigits(Tail(s), SubSeq(a, 1, 8))

\* str::parse::<u64>: an optional leading "+", then one or more decimal
\* digits, the value inside 64 bits; anything else is an error.
ParseU64(s) ==
    LET body == IF s # <<>> /\ Head(s) = "+" THEN Tail(s) ELSE s
    IN  IF body = <<>> THEN [ok |-> FALSE, val |-> U64(0)]
        ELSE ParseDigits(body, U64(0))

(***************************************************************************)
(* Bounds and input sets                                                   *)
(***************************************************************************)
\* Number of distinct identities (signers, owners).
NumKeys == 2
\* Largest number of solve requests in flight at once (SpecRace).
MaxInFlight == 2

Keys == 1..NumKeys

\* Pubkey Display (base58 in the program): an injective table.
PubkeyToString(k) == <<"P", "k">> \o to_string(U64(k))
\* The leading eight bytes of a Pubkey, read as a little-endian u64.
PubkeyPrefix(k) == U64(1000 * k + 3)

\* Values the Clock sysvar hands out.
Slots == {U64(42)}
Timestamps == {9, 60}

\* Instruction arguments.
PuzzleTypes == {0, 1, 2, 3}
Difficulties == {1}
MintUris == {"uri0"}
Uris == {"uri0", "uri1"}
NoUri == <<>>
NewUris == {NoUri, <<"uri1">>}
Names == {"Puzzle"}

\* Outcome of the cross-program invocations of one instruction: all succeed,
\* the first fails, the second fails.
CpiOutcomes == {"ok", "fail1", "fail2"}

(***************************************************************************)
(* String literals of the program                                          *)
(***************************************************************************)
S_true == <<"t","r","u","e">>
S_false == <<"f","a","l","s","e">>
S_math_factor == <<"m","a","t","h","_","f","a","c","t","o","r">>
S_hash_riddle == <<"h","a","s","h","_","r","i","d","d","l","e">>
S_pattern == <<"p","a","t","t","e","r","n">>
S_Legendary == <<"L","e","g","e","n","d","a","r","y">>
S_Epic == <<"E","p","i","c">>
S_Rare == <<"R","a","r","e">>
S_Common == <<"C","o","m","m","o","n">>

(***************************************************************************)
(* Attribute program: instructions/mint_puzzle_nft.rs                      *)
(***************************************************************************)
\* self.asset.key(): the address of the one asset account of the model.
AssetKey == "asset"

Attribute(k, v) == [key |-> k, value |-> v]

\* Mutant: a selector that is not known is read as the last known type.
get_puzzle_type_name_Fallback(puzzle_type) ==
    CASE puzzle_type = 0 -> [ok |-> TRUE, val |-> S_math_factor]
      [] puzzle_type = 1 -> [ok |-> TRUE, val |-> S_hash_riddle]
      [] OTHER -> [ok |-> TRUE, val |-> S_pattern]

\* Result<String>: the name of a puzzle type selector.
get_puzzle_type_name(puzzle_type) ==
    CASE puzzle_type = 0 -> [ok |-> TRUE, val |-> S_math_factor]
      [] puzzle_type = 1 -> [ok |-> TRUE, val |-> S_hash_riddle]
      [] puzzle_type = 2 -> [ok |-> TRUE, val |-> S_pattern]
      [] OTHER -> [ok |-> FALSE, val |-> <<>>]

\* Mutant: the increment applied to the slot before the remainder is taken.
generate_puzzle_number_IncrementFirst(slot, puzzle_type, difficulty) ==
    LET base == DivSmall(wrapping_add(slot, U64(1)), 1000).r * (difficulty + 1)
        modifier == (puzzle_type + 1) * 100
    IN  U64(base + modifier)

\* ((slot % 1000) + 1) * (difficulty + 1) + (puzzle_type + 1) * 100
generate_puzzle_number(slot, puzzle_type, difficulty) ==
    LET base == (DivSmall(slot, 1000).r + 1) * (difficulty + 1)
        modifier == (puzzle_type + 1) * 100
    IN  U64(base + modifier)

\* Mutant: an even multiplier in the commitment map.
HashRound_EvenMultiplier(v) == wrapping_add(wrapping_mul(v, U64(32)), U64(17))

\* One round of the commitment map, x * 31 + 17 wrapping.
HashRound(v) == wrapping_add(wrapping_mul(v, U64(31)), U64(17))

\* Three rounds, then lowercase hex.
generate_solution_hash(puzzle_number) ==
    FormatHex(HashRound(HashRound(HashRound(puzzle_number))))

\* The attribute list mint_puzzle_nft gives the Attributes plugin.
\* Mutant: the puzzle number written in hex, as the commitment is.
MintAttributes_HexNumber(puzzle_type_name, difficulty, puzzle_number, solution_hash, slot) ==
    << Attribute("puzzle_type", puzzle_type_name),
       Attribute("difficulty", to_string(U64(difficulty))),
       Attribute("puzzle_number", FormatHex(puzzle_number)),
       Attribute("solution_hash", solution_hash),
       Attribute("solved", S_false),
       Attribute("mint_slot", to_string(slot)) >>

MintAttributes(puzzle_type_name, difficulty, puzzle_number, solution_hash, slot) ==
    << Attribute("puzzle_type", puzzle_type_name),
       Attribute("difficulty", to_string(U64(difficulty))),
       Attribute("puzzle_number", to_string(puzzle_number)),
       Attribute("solution_hash", solution_hash),
       Attribute("solved", S_false),
       Attribute("mint_slot", to_string(slot)) >>

\* An asset account that holds no Metaplex Core asset.
NoAsset == [live |-> FALSE, owner |-> 0, name |-> "", uri |-> "",
            has_attributes |-> FALSE, attribute_list |-> <<>>]

\* MintPuzzleNft::mint_puzzle_nft as a function of the asset account, the
\* arguments and the environment (Clock slot, outcome of the CreateV1 CPI).
\* The result, the asset afterwards and the events emitted.
mint_puzzle_nft(a, payer, name, uri, puzzle_type, difficulty, slot, cpi) ==
    LET tn == get_puzzle_type_name(puzzle_type)
        puzzle_number == generate_puzzle_number(slot, puzzle_type, difficulty)
        solution_hash == generate_solution_hash(puzzle_number)
    IN  IF ~tn.ok THEN [result |-> "InvalidPuzzleType", asset |-> a, emitted |-> <<>>]
        ELSE IF a.live \/ cpi # "ok"
        THEN [result |-> "CpiError", asset |-> a, emitted |-> <<>>]
        ELSE [result |-> "Ok",
              asset |-> [live |-> TRUE, owner |-> payer, name |-> name, uri |-> uri,
                         has_attributes |-> TRUE,
                         attribute_list |->
                             MintAttributes(tn.val, difficulty, puzzle_number,
                                            solution_hash, slot)],
              emitted |-> << [event |-> "PuzzleMinted", asset |-> AssetKey,
                              puzzle_type |-> tn.val,
                              puzzle_number |-> puzzle_number, minter |-> payer] >>]

(***************************************************************************)
(* Attribute program: instructions/solve_puzzle.rs                         *)
(***************************************************************************)
RECURSIVE FindFrom(_, _, _)
FindFrom(list, key, i) ==
    IF i > Len(list) THEN 0
    ELSE IF list[i].key = key THEN i ELSE FindFrom(list, key, i + 1)

\* iter().find(|attr| attr.key == key): the first index holding key, 0 if none.
Find(list, key) == FindFrom(list, key, 1)

\* i64 % 100 as Rust computes it: the remainder takes the sign of the dividend.
RemI64(t, m) == IF t >= 0 THEN t % m ELSE -((-t) % m)

\* Mutant: the tier limits compared with <= instead of <.
Rarity_Inclusive(t) ==
    IF RemI64(t, 100) <= 10 THEN S_Legendary
    ELSE IF RemI64(t, 100) <= 30 THEN S_Epic
    ELSE IF RemI64(t, 100) <= 60 THEN S_Rare
    ELSE S_Common

\* The rarity tier of a solve at timestamp t.
Rarity(t) ==
    IF RemI64(t, 100) < 10 THEN S_Legendary
    ELSE IF RemI64(t, 100) < 30 THEN S_Epic
    ELSE IF RemI64(t, 100) < 60 THEN S_Rare
    ELSE S_Common

\* Mutant: when the key is absent the value lands on the first attribute
\* of the list instead of being appended.
Upsert_FirstSlot(list, key, value) ==
    LET i == Find(list, key)
    IN  IF i # 0 THEN [list EXCEPT ![i].value = value]
        ELSE [list EXCEPT ![1].value = value]

\* Mutant: an absent key is put at the front of the list, not at its end.
Upsert_Prepend(list, key, value) ==
    LET i == Find(list, key)
    IN  IF i # 0 THEN [list EXCEPT ![i].value = value]
        ELSE <<Attribute(key, value)>> \o list

\* Mutant: the pair is pushed whether or not the key is there.
Upsert_AlwaysPush(list, key, value) == Append(list, Attribute(key, value))

\* if let Some(attr) = find(key) { attr.value = value } else { push }
Upsert(list, key, value) ==
    LET i == Find(list, key)
    IN  IF i # 0 THEN [list EXCEPT ![i].value = value]
        ELSE Append(list, Attribute(key, value))

\* Mutant: the rarity attribute is not written.
MergeSolution_NoRarity(list, solver, solution, timestamp) ==
    LET l1 == Upsert(list, "solved", S_true)
        l2 == Upsert(l1, "solver", PubkeyToString(solver))
        l3 == Upsert(l2, "solution", to_string(solution))
    IN  Upsert(l3, "solve_timestamp", I64ToString(timestamp))

\* Mutant: the solve timestamp is written as the solution and the solution
\* as the solve timestamp.
MergeSolution_Swapped(list, solver, solution, timestamp) ==
    LET l1 == Upsert(list, "solved", S_true)
        l2 == Upsert(l1, "solver", PubkeyToString(solver))
        l3 == Upsert(l2, "solution", I64ToString(timestamp))
        l4 == Upsert(l3, "solve_timestamp", to_string(solution))
    IN  Upsert(l4, "rarity", Rarity(timestamp))

\* The loop over solution_attributes.
MergeSolution(list, solver, solution, timestamp) ==
    LET l1 == Upsert(list, "solved", S_true)
        l2 == Upsert(l1, "solver", PubkeyToString(solver))
        l3 == Upsert(l2, "solution", to_string(solution))
        l4 == Upsert(l3, "solve_timestamp", I64ToString(timestamp))
    IN  Upsert(l4, "rarity", Rarity(timestamp))

\* Mutant: the candidate's commitment written in decimal before the comparison.
CheckSolution_Decimal(puzzle_type, puzzle_number, solution_hash, solution) ==
    IF puzzle_type = S_math_factor
    THEN IF IsZero(solution) THEN "Abort"
         ELSE IF ~IsZero(Rem(puzzle_number, solution)) THEN "IncorrectSolution"
         ELSE "Ok"
    ELSE IF to_string(HashRound(solution)) # solution_hash THEN "IncorrectSolution"
         ELSE "Ok"

\* The verification step.  "Ok", "IncorrectSolution", or "Abort" when the
\* remainder is taken with a zero divisor (the program panics).
CheckSolution(puzzle_type, puzzle_number, solution_hash, solution) ==
    IF puzzle_type = S_math_factor
    THEN IF IsZero(solution) THEN "Abort"
         ELSE IF ~IsZero(Rem(puzzle_number, solution)) THEN "IncorrectSolution"
         ELSE "Ok"
    ELSE IF FormatHex(HashRound(solution)) # solution_hash THEN "IncorrectSolution"
         ELSE "Ok"

Fail(a, err) == [result |-> err, asset |-> a, emitted |-> <<>>]

\* Mutant: the ownership check left out.
OwnerMatches_Missing(a, owner) == TRUE

\* require_eq!(asset.owner, self.owner.key(), NotNftOwner)
OwnerMatches(a, owner) == a.owner = owner

\* Mutant: the solved flag compared with a literal that is never written.
IsSolvedValue_WrongLiteral(v) == v = <<"T","r","u","e">>

\* Mutant: the solved flag is never read as set.
IsSolvedValue_Never(v) == FALSE

\* solved_attr.value == "true"
IsSolvedValue(v) == v = S_true

\* Mutant: the URI update issued with the empty string when none is given.
UpdatedUri_Unconditional(uri, new_uri) == IF new_uri # NoUri THEN new_uri[1] ELSE ""

\* if let Some(uri) = new_uri { UpdateV1 ... .new_uri(uri) }
UpdatedUri(uri, new_uri) == IF new_uri # NoUri THEN new_uri[1] ELSE uri

\* SolvePuzzle::solve_puzzle as a function of the asset account, the signer,
\* the arguments and the environment (Clock timestamp, outcome of the CPIs).
\* An error or a panic aborts the transaction: the asset is as before.
solve_puzzle(a, owner, solution, new_uri, timestamp, cpi) ==
    IF ~a.live THEN Fail(a, "InvalidAssetData")
    ELSE IF ~OwnerMatches(a, owner) THEN Fail(a, "NotNftOwner")
    ELSE IF ~a.has_attributes THEN Fail(a, "AttributeNotFound")
    ELSE
    LET list == a.attribute_list
        iSolved == Find(list, "solved")
        iNumber == Find(list, "puzzle_number")
        iHash == Find(list, "solution_hash")
        iType == Find(list, "puzzle_type")
        number == ParseU64(list[iNumber].value)
    IN  IF iSolved = 0 THEN Fail(a, "AttributeNotFound")
        ELSE IF IsSolvedValue(list[iSolved].value) THEN Fail(a, "AlreadySolved")
        ELSE IF iNumber = 0 THEN Fail(a, "PuzzleNotFound")
        ELSE IF ~number.ok THEN Fail(a, "FailedToParsePuzzleData")
        ELSE IF iHash = 0 THEN Fail(a, "PuzzleNotFound")
        ELSE IF iType = 0 THEN Fail(a, "PuzzleNotFound")
        ELSE
        LET check == CheckSolution(list[iType].value, number.val,
                                   list[iHash].value, solution)
        IN  IF check # "Ok" THEN Fail(a, check)
            ELSE IF cpi = "fail1" THEN Fail(a, "CpiError")
            ELSE IF new_uri # NoUri /\ cpi = "fail2" THEN Fail(a, "CpiError")
            ELSE [result |-> "Ok",
                  asset |-> [a EXCEPT
                      !.attribute_list = MergeSolution(list, owner, solution, timestamp),
                      !.uri = UpdatedUri(@, new_uri)],
                  emitted |-> << [event |-> "PuzzleSolved", asset |-> AssetKey,
                                  solver |-> owner,
                                  solution_time |-> timestamp,
                                  rarity |-> Rarity(timestamp)] >>]

(***************************************************************************)
(* Account program: lib.rs                                                 *)
(***************************************************************************)
Moduli == {U64(0), U64(7)}
Targets == {U64(3)}
Descriptions == {"desc"}

\* Option<T>: <<>> is None, <<v>> is Some(v).
None == <<>>
Some(v) == <<v>>

\* A puzzle PDA that has not been created.
NoPuzzleAccount ==
    [init |-> FALSE, puzzle_description |-> "", seed |-> U64(0),
     modulus |-> U64(0), target |-> U64(0), solved |-> FALSE, solver |-> None,
     solved_at_slot |-> None, uri |-> ""]

\* The token side of the NFT: who holds the one token, and the metadata URI.
NoNft == [holder |-> 0, metadata_uri |-> ""]

LibFail(acc, nft, err) ==
    [result |-> err, account |-> acc, nft |-> nft, emitted |-> <<>>]

\* puzzle_nft::mint_puzzle_nft.  The puzzle account and the mint are created by
\* the `init` constraints, which fail when the account exists already.
lib_mint_puzzle_nft(acc, nft, authority, puzzle_description, modulus, target, uri, slot, cpi) ==
    LET seed == Xor(PubkeyPrefix(authority), slot)
    IN  IF acc.init THEN LibFail(acc, nft, "AccountInUse")
        ELSE IF cpi # "ok" THEN LibFail(acc, nft, "CpiError")
        ELSE [result |-> "Ok",
              account |-> [init |-> TRUE, puzzle_description |-> puzzle_description,
                           seed |-> seed, modulus |-> modulus, target |-> target,
                           solved |-> FALSE, solver |-> None,
                           solved_at_slot |-> None, uri |-> uri],
              nft |-> [holder |-> authority, metadata_uri |-> uri],
              emitted |-> << [event |-> "PuzzleMinted", authority |-> authority,
                              seed |-> seed, modulus |-> modulus,
                              target |-> target] >>]

\* (solution * seed) % modulus.  The product panics on overflow in a build
\* with overflow checks and wraps in one without; a zero modulus panics.
Calculated(solution, seed, modulus, checks) ==
    IF checks /\ MulOverflows(solution, seed) THEN [ok |-> FALSE, val |-> U64(0)]
    ELSE IF IsZero(modulus) THEN [ok |-> FALSE, val |-> U64(0)]
    ELSE [ok |-> TRUE, val |-> Rem(wrapping_mul(solution, seed), modulus)]

\* Mutant: the solved check left out.
AccountSolved_Missing(acc) == FALSE

\* if puzzle.solved { return Err(AlreadySolved) }
AccountSolved(acc) == acc.solved

\* puzzle_nft::solve_puzzle.
lib_solve_puzzle(acc, nft, solver, solution, new_uri, slot, cpi, checks) ==
    IF ~acc.init THEN LibFail(acc, nft, "AccountNotInitialized")
    ELSE IF AccountSolved(acc) THEN LibFail(acc, nft, "AlreadySolved")
    ELSE
    LET calculated == Calculated(solution, acc.seed, acc.modulus, checks)
    IN  IF ~calculated.ok THEN LibFail(acc, nft, "Abort")
        ELSE IF calculated.val # acc.target THEN LibFail(acc, nft, "InvalidSolution")
        ELSE IF cpi # "ok" THEN LibFail(acc, nft, "CpiError")
        ELSE [result |-> "Ok",
              account |-> [acc EXCEPT !.solved = TRUE, !.solver = Some(solver),
                                      !.solved_at_slot = Some(slot),
                                      !.uri = new_uri],
              nft |-> [nft EXCEPT !.metadata_uri = new_uri],
              emitted |-> << [event |-> "PuzzleSolved", solver |-> solver,
                              solution |-> solution, solved_at_slot |-> slot] >>]

(***************************************************************************)
(* Candidate solutions                                                     *)
(***************************************************************************)
\* Every number mint_puzzle_nft can generate from the inputs above.
PuzzleNumbers ==
    { generate_puzzle_number(s, t, d) : s \in Slots, t \in {0, 1, 2}, d \in Difficulties }

\* Zero, small divisors and non-divisors, the generated numbers themselves,
\* their images under two rounds of the commitment map (the values whose one
\* further round gives the minted commitment), and the largest u64.
Candidates ==
    {U64(0), U64(1), U64(5), U64Max}
        \cup PuzzleNumbers
        \cup { HashRound(HashRound(n)) : n \in PuzzleNumbers }

(***************************************************************************)
(* State                                                                   *)
(***************************************************************************)
VARIABLES
    program,          \* which of the two programs is deployed
    overflow_checks,  \* is the program built with arithmetic overflow checks
    asset,            \* attribute program: the Metaplex Core asset account
    puzzle_account,   \* account program: the PuzzleNFT account
    nft,              \* account program: token holder and metadata URI
    events,           \* events emitted so far
    pending,          \* solve requests submitted and not yet executed
    last              \* the last instruction executed and its result

vars == <<program, overflow_checks, asset, puzzle_account, nft, events, pending, last>>

\* Reading the attribute list.
HasKey(list, key) == Find(list, key) # 0
ValueOf(list, key) == list[Find(list, key)].value
\* <<v>> when key holds v, <<>> when key is absent.
Lookup(list, key) == IF HasKey(list, key) THEN <<ValueOf(list, key)>> ELSE <<>>

\* Is the list marked solved / unsolved?
ListSolved(list) == HasKey(list, "solved") /\ ValueOf(list, "solved") = S_true
ListUnsolved(list) == HasKey(list, "solved") /\ ValueOf(list, "solved") = S_false

AttrSolved == program = "attribute" /\ asset.live /\ ListSolved(asset.attribute_list)
AttrUnsolved == program = "attribute" /\ asset.live /\ ListUnsolved(asset.attribute_list)

\* Has some solve succeeded?
SolveSucceeded == \E i \in 1..Len(events) : events[i].event = "PuzzleSolved"

Init ==
    /\ \/ program = "attribute" /\ overflow_checks = TRUE
       \/ program = "account" /\ overflow_checks \in BOOLEAN
    /\ asset = NoAsset
    /\ puzzle_account = NoPuzzleAccount
    /\ nft = NoNft
    /\ events = <<>>
    /\ pending = EmptyBag
    /\ last = [op |-> "none", caller |-> 0, result |-> "none", stale |-> FALSE]

(***************************************************************************)
(* Attribute program: the instructions as transactions                     *)
(***************************************************************************)
MintOf(types) ==
    /\ program = "attribute"
    /\ \E payer \in Keys, name \in Names, uri \in MintUris, puzzle_type \in types,
          difficulty \in Difficulties, slot \in Slots, cpi \in {"ok", "fail1"} :
          LET out == mint_puzzle_nft(asset, payer, name, uri, puzzle_type,
                                     difficulty, slot, cpi)
          IN  /\ asset' = out.asset
              /\ events' = events \o out.emitted
              /\ last' = [op |-> "mint", caller |-> payer, result |-> out.result,
                          stale |-> FALSE]
    /\ UNCHANGED <<program, overflow_checks, puzzle_account, nft, pending>>

Mint == MintOf(PuzzleTypes)

\* One solve transaction, executed atomically against the current asset.
\* stale: the request was prepared from a read of the asset that showed it
\* unsolved and the asset has been solved since.
Execute(caller, solution, new_uri, timestamp, cpi, stale) ==
    LET out == solve_puzzle(asset, caller, solution, new_uri, timestamp, cpi)
    IN  /\ asset' = out.asset
        /\ events' = events \o out.emitted
        /\ last' = [op |-> "solve", caller |-> caller, result |-> out.result,
                    stale |-> stale]

Solve ==
    /\ program = "attribute"
    /\ \E caller \in Keys, solution \in Candidates, new_uri \in NewUris,
          timestamp \in Timestamps, cpi \in CpiOutcomes :
          Execute(caller, solution, new_uri, timestamp, cpi, FALSE)
    /\ UNCHANGED <<program, overflow_checks, puzzle_account, nft, pending>>

\* The ledger's transfer of the asset by its owner to another identity.
Transfer ==
    /\ program = "attribute"
    /\ asset.live
    /\ \E to \in Keys \ {asset.owner} :
          /\ asset' = [asset EXCEPT !.owner = to]
          /\ last' = [op |-> "transfer", caller |-> asset.owner, result |-> "Ok",
                      stale |-> FALSE]
    /\ UNCHANGED <<program, overflow_checks, puzzle_account, nft, events, pending>>

(***************************************************************************)
(* Account program: the instructions as transactions                       *)
(***************************************************************************)
LibMint ==
    /\ program = "account"
    /\ \E authority \in Keys, d \in Descriptions, modulus \in Moduli,
          target \in Targets, uri \in MintUris, slot \in Slots, cpi \in {"ok", "fail1"} :
          LET out == lib_mint_puzzle_nft(puzzle_account, nft, authority, d, modulus,
                                         target, uri, slot, cpi)
          IN  /\ puzzle_account' = out.account
              /\ nft' = out.nft
              /\ events' = events \o out.emitted
              /\ last' = [op |-> "mint", caller |-> authority, result |-> out.result,
                          stale |-> FALSE]
    /\ UNCHANGED <<program, overflow_checks, asset, pending>>

LibSolve ==
    /\ program = "account"
    /\ \E solver \in Keys, solution \in Candidates, new_uri \in Uris,
          slot \in Slots, cpi \in {"ok", "fail1"} :
          LET out == lib_solve_puzzle(puzzle_account, nft, solver, solution, new_uri,
                                      slot, cpi, overflow_checks)
          IN  /\ puzzle_account' = out.account
              /\ nft' = out.nft
              /\ events' = events \o out.emitted
              /\ last' = [op |-> "solve", caller |-> solver, result |-> out.result,
                          stale |-> FALSE]
    /\ UNCHANGED <<program, overflow_checks, asset, pending>>

\* The token program's transfer of the one token by its holder.
LibTransfer ==
    /\ program = "account"
    /\ nft.holder # 0
    /\ \E to \in Keys \ {nft.holder} :
          /\ nft' = [nft EXCEPT !.holder = to]
          /\ last' = [op |-> "transfer", caller |-> nft.holder, result |-> "Ok",
                      stale |-> FALSE]
    /\ UNCHANGED <<program, overflow_checks, asset, puzzle_account, events, pending>>

Next == Mint \/ Solve \/ Transfer \/ LibMint \/ LibSolve \/ LibTransfer

Spec == Init /\ [][Next]_vars

(***************************************************************************)
(* Racing solve requests (attribute program).  Requests are submitted, stay *)
(* in flight, and the ledger executes them one at a time in any order, each *)
(* as one atomic transaction against the asset as it then is.               *)
(***************************************************************************)
RaceCandidates == {U64(1), U64(5)}

Requests == [caller : Keys, solution : RaceCandidates, new_uri : {NoUri}]

\* A request is prepared from a read that shows the asset unsolved.
Submit ==
    /\ AttrUnsolved
    /\ BagCardinality(pending) < MaxInFlight
    /\ \E r \in Requests : pending' = pending (+) SetToBag({r})
    /\ UNCHANGED <<program, overflow_checks, asset, puzzle_account, nft, events, last>>

Commit ==
    /\ program = "attribute"
    /\ \E r \in BagToSet(pending), timestamp \in Timestamps, cpi \in CpiOutcomes :
          /\ Execute(r.caller, r.solution, r.new_uri, timestamp, cpi, AttrSolved)
          /\ pending' = pending (-) SetToBag({r})
    /\ UNCHANGED <<program, overflow_checks, puzzle_account, nft>>

InitRace == Init /\ program = "attribute"

RaceMint == MintOf({0})

NextRace == RaceMint \/ Submit \/ Commit

SpecRace == InitRace /\ [][NextRace]_vars

(***************************************************************************)
(* Solve applied to arbitrary assets.  solve_puzzle accepts any Metaplex    *)
(* Core asset, also one this program did not mint: the initial asset is     *)
(* drawn from the minted lists with a key removed and values replaced.      *)
(***************************************************************************)
MintedList(t) ==
    LET n == generate_puzzle_number(U64(42), t, 1)
    IN  MintAttributes(get_puzzle_type_name(t).val, 1, n,
                       generate_solution_hash(n), U64(42))

Without(list, key) == SelectSeq(list, LAMBDA a : a.key # key)

WithValue(list, key, v) ==
    [i \in 1..Len(list) |->
        IF list[i].key = key THEN [list[i] EXCEPT !.value = v] ELSE list[i]]

S_yes == <<"y","e","s">>
S_12a == <<"1","2","a">>

DecodeLists ==
    { WithValue(Without(l, k), "solved", sv) :
        l \in { MintedList(t) : t \in {0, 1} }
              \cup { WithValue(MintedList(t), "puzzle_number", S_12a) : t \in {0, 1} },
        k \in {"", "solved", "puzzle_number", "solution_hash", "puzzle_type",
               "difficulty", "mint_slot"},
        sv \in {S_false, S_true, S_yes} }

DecodeAssets ==
    { [live |-> TRUE, owner |-> 1, name |-> "Puzzle", uri |-> "uri0",
       has_attributes |-> TRUE, attribute_list |-> l] : l \in DecodeLists }
      \cup { [live |-> TRUE, owner |-> 1, name |-> "Puzzle", uri |-> "uri0",
              has_attributes |-> FALSE, attribute_list |-> <<>>],
             NoAsset }

InitDecode ==
    /\ program = "attribute"
    /\ overflow_checks = TRUE
    /\ asset \in DecodeAssets
    /\ puzzle_account = NoPuzzleAccount
    /\ nft = NoNft
    /\ events = <<>>
    /\ pending = EmptyBag
    /\ last = [op |-> "none", caller |-> 0, result |-> "none", stale |-> FALSE]

NextDecode == Solve

SpecDecode == InitDecode /\ [][NextDecode]_vars

(***************************************************************************)
(* Solve applied to assets that carry more than mint wrote: attributes of   *)
(* other schemas, solve keys present already, keys held twice, and a        *)
(* puzzle_type value mint never writes.                                     *)
(***************************************************************************)
\* list with attribute x put after its first p elements.
InsertAt(list, p, x) ==
    SubSeq(list, 1, p) \o <<x>> \o SubSeq(list, p + 1, Len(list))

S_sudoku == <<"s","u","d","o","k","u">>

\* A puzzle of a type mint does not know, whose commitment is the one-round
\* image of 5.
SudokuList ==
    WithValue(WithValue(MintedList(1), "puzzle_type", S_sudoku),
              "solution_hash", FormatHex(HashRound(U64(5))))

ForeignExtras ==
    { Attribute("color", <<"r","e","d">>), Attribute("rarity", <<"N","o","n","e">>),
      Attribute("solver", <<"n","o","b","o","d","y">>), Attribute("solved", S_true) }

ForeignLists ==
    { InsertAt(InsertAt(b, p, x), q, y) :
        b \in {MintedList(0), SudokuList},
        x \in ForeignExtras,
        y \in {Attribute("color", <<"r","e","d">>), Attribute("rarity", <<"N","o","n","e">>)},
        p \in {0, 3, 6}, q \in {0, 7} }

ForeignAssets ==
    { [live |-> TRUE, owner |-> 1, name |-> "Puzzle", uri |-> "uri0",
       has_attributes |-> TRUE, attribute_list |-> l] : l \in ForeignLists }

InitForeign ==
    /\ program = "attribute"
    /\ overflow_checks = TRUE
    /\ asset \in ForeignAssets
    /\ puzzle_account = NoPuzzleAccount
    /\ nft = NoNft
    /\ events = <<>>
    /\ pending = EmptyBag
    /\ last = [op |-> "none", caller |-> 0, result |-> "none", stale |-> FALSE]

NextForeign == Solve

SpecForeign == InitForeign /\ [][NextForeign]_vars

(***************************************************************************)
(* Solves of one minted puzzle at every clock reading of a range: two       *)
(* hundred consecutive seconds, the tier limits at a present-day Unix time, *)
(* and readings before the epoch.                                           *)
(***************************************************************************)
MaxTimestamp == 199

RarityTimestamps ==
    (0..MaxTimestamp)
        \cup { 1700000000 + r : r \in {0, 9, 10, 29, 30, 59, 60, 99} }
        \cup { -1, -95 }

MintedAsset == mint_puzzle_nft(NoAsset, 1, "Puzzle", "uri0", 0, 1, U64(42), "ok")

InitRarity ==
    /\ program = "attribute"
    /\ overflow_checks = TRUE
    /\ asset = MintedAsset.asset
    /\ puzzle_account = NoPuzzleAccount
    /\ nft = NoNft
    /\ events = MintedAsset.emitted
    /\ pending = EmptyBag
    /\ last = [op |-> "mint", caller |-> 1, result |-> "Ok", stale |-> FALSE]

\* The owner submits the divisor 1 at clock reading t.
SolveAt ==
    /\ program = "attribute"
    /\ \E t \in RarityTimestamps :
          Execute(asset.owner, U64(1), NoUri, t, "ok", FALSE)
    /\ UNCHANGED <<program, overflow_checks, puzzle_account, nft, pending>>

NextRarity == SolveAt

SpecRarity == InitRarity /\ [][NextRarity]_vars

(***************************************************************************)
(* Mint over the range of its inputs: slots at the ends of the residues     *)
(* modulo 1000 and of u64, difficulties at the ends of u8, and selectors    *)
(* inside and outside the known types.                                      *)
(***************************************************************************)
GenSlots ==
    { U64(0), U64(42), U64(999), U64(1000), U64(1999), U64(123456789),
      <<0, 0, 0, 0, 1, 0, 0, 0>>, U64Max }
GenDifficulties == {0, 1, 7, 255}
GenTypes == {0, 1, 2, 3, 255}

MintGen ==
    /\ program = "attribute"
    /\ \E payer \in Keys, puzzle_type \in GenTypes, difficulty \in GenDifficulties,
          slot \in GenSlots, cpi \in {"ok", "fail1"} :
          LET out == mint_puzzle_nft(asset, payer, "Puzzle", "uri0", puzzle_type,
                                     difficulty, slot, cpi)
          IN  /\ asset' = out.asset
              /\ events' = events \o out.emitted
              /\ last' = [op |-> "mint", caller |-> payer, result |-> out.result,
                          stale |-> FALSE]
    /\ UNCHANGED <<program, overflow_checks, puzzle_account, nft, pending>>

InitGen == Init /\ program = "attribute"

NextGen == MintGen

SpecGen == InitGen /\ [][NextGen]_vars

(***************************************************************************)
(* Properties                                                              *)
(***************************************************************************)
\* The stored puzzle number of a minted list.
StoredNumber(list) == ParseU64(ValueOf(list, "puzzle_number")).val
StoredType(list) == ValueOf(list, "puzzle_type")
StoredHash(list) == ValueOf(list, "solution_hash")

\* Does d divide n (d = 0 divides nothing here: the numbers are positive)?
Divides(d, n) == ~IsZero(d) /\ IsZero(Rem(n, d))

C1_Step ==
    (/\ SolveSucceeded
     /\ last'.op = "solve"
     /\ program = "attribute" => last'.caller = asset.owner)
    => /\ last'.result = "AlreadySolved"
       /\ asset' = asset
       /\ puzzle_account' = puzzle_account
       /\ nft' = nft
       /\ events' = events

\* C1: solve is single-use in both programs.  Once a solve has succeeded,
\* every later solve transaction on the asset (in the attribute program: one
\* signed by the recorded owner), whatever its candidate and URI, ends in
\* AlreadySolved and leaves asset, puzzle account, metadata and events as
\* they were.
C1_SolveIsSingleUse == [][C1_Step]_vars

\* A second solve by the recorded owner was refused after a first succeeded.
C1_Witness ==
    /\ AttrSolved
    /\ SolveSucceeded
    /\ last.op = "solve"
    /\ last.caller = asset.owner
    /\ last.result = "AlreadySolved"

\* C2: ownership gating.  On an unsolved asset, solve_puzzle called by any
\* identity other than the recorded owner returns NotNftOwner for every
\* candidate (correct ones and 0 included), URI, timestamp and CPI outcome,
\* and changes neither the attribute list nor the URI, and emits nothing.
C2_OwnershipGate ==
    AttrUnsolved =>
        \A k \in Keys \ {asset.owner}, s \in Candidates, u \in NewUris,
           t \in Timestamps, c \in CpiOutcomes :
            LET out == solve_puzzle(asset, k, s, u, t, c)
            IN  /\ out.result = "NotNftOwner"
                /\ out.asset = asset
                /\ out.emitted = <<>>

\* A solve by a non-owner was refused on an unsolved asset for which the
\* candidate set holds a solution the owner would have had accepted.
C2_Witness ==
    /\ AttrUnsolved
    /\ last.op = "solve"
    /\ last.caller # asset.owner
    /\ last.result = "NotNftOwner"
    /\ \E s \in Candidates :
          solve_puzzle(asset, asset.owner, s, NoUri, 9, "ok").result = "Ok"

\* C3: every failing solve is all-or-nothing (asset and events as before),
\* and in particular a non-divisor submitted by the owner to an unsolved
\* math_factor puzzle fails with IncorrectSolution.
C3_FailingSolveIsAtomic ==
    (program = "attribute" /\ asset.live) =>
        \A k \in Keys, s \in Candidates, u \in NewUris,
           t \in Timestamps, c \in CpiOutcomes :
            LET out == solve_puzzle(asset, k, s, u, t, c)
                list == asset.attribute_list
            IN  /\ out.result # "Ok" => (out.asset = asset /\ out.emitted = <<>>)
                /\ (/\ AttrUnsolved
                    /\ k = asset.owner
                    /\ StoredType(list) = S_math_factor
                    /\ ~Divides(s, StoredNumber(list)))
                   => out.result = "IncorrectSolution"

\* C4: the math_factor rule.  For an unsolved math_factor puzzle with stored
\* number n and a solve by the owner (the CPIs succeeding), a candidate s is
\* accepted iff s > 0 and n mod s = 0, and every rejected candidate, 0
\* included, gets IncorrectSolution.
C4_MathFactorRule ==
    (AttrUnsolved /\ StoredType(asset.attribute_list) = S_math_factor) =>
        \A s \in Candidates, u \in NewUris, t \in Timestamps :
            LET out == solve_puzzle(asset, asset.owner, s, u, t, "ok")
            IN  /\ out.result = "Ok" <=> Divides(s, StoredNumber(asset.attribute_list))
                /\ out.result # "Ok" => out.result = "IncorrectSolution"

\* Three rounds of the commitment map, then hex: what mint stores.
Commitment(v) == FormatHex(HashRound(HashRound(HashRound(v))))

\* C5: hash_riddle / pattern verification.  For an unsolved puzzle of one of
\* these types and a solve by the owner (the CPIs succeeding), a candidate s
\* is accepted iff the hex of three rounds of x*31+17 applied to s equals the
\* stored solution_hash; so the minted puzzle_number is accepted.
C5_HashCommitmentRule ==
    (AttrUnsolved /\ StoredType(asset.attribute_list) # S_math_factor) =>
        /\ \A s \in Candidates, u \in NewUris, t \in Timestamps :
              solve_puzzle(asset, asset.owner, s, u, t, "ok").result = "Ok"
                  <=> Commitment(s) = StoredHash(asset.attribute_list)
        /\ solve_puzzle(asset, asset.owner, StoredNumber(asset.attribute_list),
                        NoUri, 9, "ok").result = "Ok"

SolveKeys == {"solver", "solution", "solve_timestamp", "rarity"}
CreationKeys == {"puzzle_type", "difficulty", "puzzle_number", "solution_hash", "mint_slot"}

\* The step leaves the asset account as it is.
AssetKept == asset' = asset /\ program' = program

C6_Step ==
    /\ AttrSolved =>
          \/ AssetKept
          \/ /\ AttrSolved'
             /\ \A key \in SolveKeys :
                   Lookup(asset'.attribute_list, key) = Lookup(asset.attribute_list, key)
    /\ puzzle_account.solved =>
          /\ puzzle_account'.solved
          /\ puzzle_account'.solver = puzzle_account.solver
          /\ puzzle_account'.solved_at_slot = puzzle_account.solved_at_slot

\* C6: the solved state is terminal and its record permanent.  Over every
\* sequence of mints, solves by any identity and transfers, a solved asset
\* stays solved and its solver, solution, solve_timestamp and rarity keep the
\* values of the first successful solve; likewise the account's solved,
\* solver and solved_at_slot.
C6_SolvedIsTerminal == [][C6_Step]_vars

\* A later owner, not the recorded solver, tried to solve the solved asset.
C6_Witness ==
    /\ AttrSolved
    /\ last.op = "solve"
    /\ last.caller = asset.owner
    /\ Lookup(asset.attribute_list, "solver") # <<PubkeyToString(asset.owner)>>
    /\ last.result = "AlreadySolved"

\* C7: the solve-state fields are all-or-nothing in every reachable state.
\* Attribute list: solved is "true" or "false"; solver, solution,
\* solve_timestamp and rarity are all present when it is "true" and all
\* absent when it is "false".  Account: solver and solved_at_slot are both
\* Some when solved and both None otherwise.
C7_SolveFieldsTogether ==
    /\ (program = "attribute" /\ asset.live) =>
          /\ AttrSolved \/ AttrUnsolved
          /\ \A key \in SolveKeys : HasKey(asset.attribute_list, key) <=> AttrSolved
    /\ (puzzle_account.solver # None) <=> puzzle_account.solved
    /\ (puzzle_account.solved_at_slot # None) <=> puzzle_account.solved

\* A solved asset carrying the four solve attributes.
C7_Witness ==
    /\ AttrSolved
    /\ last.op = "solve"
    /\ last.result = "Ok"
    /\ \A key \in SolveKeys : HasKey(asset.attribute_list, key)

C8_Step ==
    /\ (program = "attribute" /\ asset.live) =>
          \/ AssetKept
          \/ \A key \in CreationKeys :
                Lookup(asset'.attribute_list, key) = Lookup(asset.attribute_list, key)
    /\ puzzle_account.init =>
          /\ puzzle_account'.seed = puzzle_account.seed
          /\ puzzle_account'.modulus = puzzle_account.modulus
          /\ puzzle_account'.target = puzzle_account.target
          /\ puzzle_account'.puzzle_description = puzzle_account.puzzle_description

\* C8: the creation-time fields are immutable.  No step taken on a minted
\* asset changes the value of puzzle_type, difficulty, puzzle_number,
\* solution_hash or mint_slot in the attribute list, and no step taken on an
\* initialised puzzle account changes seed, modulus, target or
\* puzzle_description.
C8_CreationFieldsImmutable == [][C8_Step]_vars

\* A solve has succeeded and the list still holds the five creation keys
\* with the values mint computes for some input.
C8_Witness ==
    /\ AttrSolved
    /\ SolveSucceeded
    /\ \E t \in {0, 1, 2} :
          \A key \in CreationKeys :
              Lookup(asset.attribute_list, key) = Lookup(MintedList(t), key)

\* The number of PuzzleSolved events emitted so far.
SolvedEvents == Cardinality({i \in 1..Len(events) : events[i].event = "PuzzleSolved"})

\* The step executes one in-flight request.
IsCommit == BagCardinality(pending') < BagCardinality(pending)

C9_Original_Step ==
    (AttrSolved /\ IsCommit) => last'.result = "AlreadySolved"

\* The statement as claimed: every request executed after the first
\* successful solve fails with AlreadySolved.
C9_Original == [][C9_Original_Step]_vars

C9_Step ==
    /\ SolvedEvents' <= 1
    /\ (AttrSolved /\ IsCommit) =>
          /\ last'.result = IF last'.caller = asset.owner
                            THEN "AlreadySolved" ELSE "NotNftOwner"
          /\ asset' = asset
          /\ events' = events

\* C9: racing solves.  In every interleaving of in-flight solve requests on
\* one asset at most one succeeds; a request executed after the first
\* successful solve fails, with AlreadySolved when its signer is the recorded
\* owner and with NotNftOwner otherwise, and leaves the asset (so solver,
\* solution, solve_timestamp and rarity) and the events unchanged.
C9_RacingSolves == [][C9_Step]_vars

\* A request prepared while the asset was unsolved was executed after
\* another had solved it, and was refused with AlreadySolved.
C9_Witness ==
    /\ AttrSolved
    /\ last.op = "solve"
    /\ last.stale
    /\ last.caller = asset.owner
    /\ last.result = "AlreadySolved"

\* Conditions on an asset, in the order solve_puzzle reports them.
PluginMissing(a) == ~a.has_attributes \/ ~HasKey(a.attribute_list, "solved")
NumberUnreadable(a) ==
    \/ ~HasKey(a.attribute_list, "puzzle_number")
    \/ ~ParseU64(ValueOf(a.attribute_list, "puzzle_number")).ok
PuzzleUnreadable(a) ==
    \/ NumberUnreadable(a)
    \/ ~HasKey(a.attribute_list, "solution_hash")
    \/ ~HasKey(a.attribute_list, "puzzle_type")
DecodeErrors == {"AttributeNotFound", "PuzzleNotFound", "FailedToParsePuzzleData"}

\* The order as claimed: AlreadySolved before NotNftOwner, and a missing or
\* unparseable attribute before NotNftOwner.
C10_Original ==
    (program = "attribute" /\ asset.live) =>
        \A k \in Keys \ {asset.owner}, s \in Candidates :
            LET out == solve_puzzle(asset, k, s, NoUri, 9, "ok")
            IN  /\ (~PluginMissing(asset) /\ ~PuzzleUnreadable(asset)
                      /\ ListSolved(asset.attribute_list))
                      => out.result = "AlreadySolved"
                /\ (PluginMissing(asset) \/ PuzzleUnreadable(asset))
                      => out.result \in DecodeErrors

\* C10: the order of the solve checks is: asset decode (InvalidAssetData),
\* NotNftOwner, AttributeNotFound (no attribute plugin or no solved key),
\* AlreadySolved, the puzzle attributes (PuzzleNotFound,
\* FailedToParsePuzzleData), and the solution last.  So a non-owner gets
\* NotNftOwner on every live asset, solved or with missing or unparseable
\* attributes; the owner gets AlreadySolved on a solved asset whatever else
\* is missing; and the solution is only judged on a readable unsolved
\* puzzle submitted by the owner.
C10_CheckOrder ==
    program = "attribute" =>
        \A k \in Keys, s \in Candidates, u \in NewUris, t \in Timestamps,
           c \in CpiOutcomes :
            LET r == solve_puzzle(asset, k, s, u, t, c).result
            IN  /\ ~asset.live => r = "InvalidAssetData"
                /\ (asset.live /\ k # asset.owner) => r = "NotNftOwner"
                /\ (asset.live /\ k = asset.owner /\ PluginMissing(asset))
                      => r = "AttributeNotFound"
                /\ (asset.live /\ k = asset.owner /\ ~PluginMissing(asset)
                      /\ ListSolved(asset.attribute_list))
                      => r = "AlreadySolved"
                /\ (asset.live /\ k = asset.owner /\ ~PluginMissing(asset)
                      /\ ~ListSolved(asset.attribute_list) /\ PuzzleUnreadable(asset))
                      => r \in {"PuzzleNotFound", "FailedToParsePuzzleData"}
                /\ r \in {"IncorrectSolution", "Abort", "Ok", "CpiError"}
                      => /\ asset.live /\ k = asset.owner
                         /\ ~PluginMissing(asset)
                         /\ ~ListSolved(asset.attribute_list)
                         /\ ~PuzzleUnreadable(asset)

\* A non-owner was refused with NotNftOwner on an asset that is solved and
\* whose puzzle attributes are not readable.
C10_Witness ==
    /\ program = "attribute" /\ asset.live
    /\ ~PluginMissing(asset)
    /\ ListSolved(asset.attribute_list)
    /\ PuzzleUnreadable(asset)
    /\ last.op = "solve"
    /\ last.caller # asset.owner
    /\ last.result = "NotNftOwner"

\* The tier of a residue r in 0..99, as the specification tabulates it.
Tier(r) ==
    IF r \in 0..9 THEN S_Legendary
    ELSE IF r \in 10..29 THEN S_Epic
    ELSE IF r \in 30..59 THEN S_Rare
    ELSE S_Common

\* C11: postcondition of a successful solve.  When solve_puzzle succeeds on
\* an unsolved asset for caller k, candidate s and timestamp t, the new list
\* has solved = "true", solver = k, solution = decimal(s), solve_timestamp =
\* decimal(t), rarity = the tier of t mod 100, and exactly one PuzzleSolved
\* event is emitted, carrying the asset, k, t and that rarity.
C11_SolvePostcondition ==
    AttrUnsolved =>
        \A k \in Keys, s \in Candidates, u \in NewUris, t \in Timestamps,
           c \in CpiOutcomes :
            LET out == solve_puzzle(asset, k, s, u, t, c)
                new == out.asset.attribute_list
            IN  out.result = "Ok" =>
                  /\ Lookup(new, "solved") = <<S_true>>
                  /\ Lookup(new, "solver") = <<PubkeyToString(k)>>
                  /\ Lookup(new, "solution") = <<to_string(s)>>
                  /\ ParseU64(ValueOf(new, "solution")) = [ok |-> TRUE, val |-> s]
                  /\ ParseU64(ValueOf(new, "solve_timestamp")) = [ok |-> TRUE, val |-> U64(t)]
                  /\ Lookup(new, "rarity") = <<Tier(t % 100)>>
                  /\ out.emitted = << [event |-> "PuzzleSolved", asset |-> AssetKey,
                                       solver |-> k, solution_time |-> t,
                                       rarity |-> Tier(t % 100)] >>

\* A solve has just succeeded: the list records the caller as solver and
\* the last event is the PuzzleSolved of that caller.
C11_Witness ==
    /\ AttrSolved
    /\ last.op = "solve"
    /\ last.result = "Ok"
    /\ Lookup(asset.attribute_list, "solver") = <<PubkeyToString(last.caller)>>
    /\ Len(events) > 0
    /\ events[Len(events)].event = "PuzzleSolved"
    /\ events[Len(events)].solver = last.caller

\* The update set of solve, in the order the updates are applied.
UpdateOrder == <<"solved", "solver", "solution", "solve_timestamp", "rarity">>
UpdateKeys == {UpdateOrder[i] : i \in 1..Len(UpdateOrder)}

\* new is old merged with the updates: same length or longer, every pair of
\* old at its index with its key, its value kept unless it is the first
\* holder of an update key, and the absent update keys appended in order.
MergedFrom(old, new) ==
    /\ Len(new) >= Len(old)
    /\ \A i \in 1..Len(old) :
          /\ new[i].key = old[i].key
          /\ (old[i].key \notin UpdateKeys \/ Find(old, old[i].key) # i)
                => new[i].value = old[i].value
    /\ \A k \in UpdateKeys : HasKey(old, k) => Find(new, k) = Find(old, k)
    /\ [i \in 1..(Len(new) - Len(old)) |-> new[Len(old) + i].key]
          = SelectSeq(UpdateOrder, LAMBDA k : ~HasKey(old, k))

C12_Step ==
    (last'.op = "solve" /\ last'.result = "Ok") =>
        LET old == asset.attribute_list
            new == asset'.attribute_list
        IN  /\ MergedFrom(old, new)
            /\ ValueOf(new, "solved") = S_true
            /\ ValueOf(new, "solver") = PubkeyToString(last'.caller)
            /\ ValueOf(new, "rarity") = events'[Len(events')].rarity

\* C12: merge_update as solve performs it.  On any attribute list, also one
\* with keys unknown to the puzzle schema, with solve keys already present
\* or with a key held twice, a successful solve keeps every pair at its
\* index, changes only the value of the first holder of each update key
\* (solved, solver, solution, solve_timestamp, rarity), appends the absent
\* update keys at the end in update order, and drops nothing.
C12_MergeKeepsOthers == [][C12_Step]_vars

\* A solved list that still starts with a rarity pair it held before (now a
\* tier), still holds the unknown key color, and ends with an appended key.
C12_Witness ==
    /\ AttrSolved
    /\ last.op = "solve" /\ last.result = "Ok"
    /\ asset.attribute_list[1].key = "rarity"
    /\ asset.attribute_list[1].value \in {S_Legendary, S_Common}
    /\ HasKey(asset.attribute_list, "color")
    /\ asset.attribute_list[Len(asset.attribute_list)].key = "solve_timestamp"

Tiers == {S_Legendary, S_Epic, S_Rare, S_Common}

\* The tiers the specification lists for the residues at the limits.
BoundaryTier ==
    [r \in {0, 9, 10, 29, 30, 59, 60, 99} |->
        CASE r \in {0, 9} -> S_Legendary
          [] r \in {10, 29} -> S_Epic
          [] r \in {30, 59} -> S_Rare
          [] r \in {60, 99} -> S_Common]

\* The PuzzleSolved event of the solve that solved the asset.
SolvedEvent == events[Len(events)]

\* C13: the rarity is a total function of the solve timestamp t with four
\* outcomes.  Every solve records one of Legendary, Epic, Rare, Common, the
\* same in the attribute and in the event; for t >= 0 it is Legendary when
\* t mod 100 is in 0..9, Epic in 10..29, Rare in 30..59, Common in 60..99,
\* and the residues 0, 9, 10, 29, 30, 59, 60, 99 give Legendary, Legendary,
\* Epic, Epic, Rare, Rare, Common, Common.
C13_RarityTiers ==
    AttrSolved =>
        LET t == SolvedEvent.solution_time
            rarity == ValueOf(asset.attribute_list, "rarity")
        IN  /\ rarity \in Tiers
            /\ rarity = SolvedEvent.rarity
            /\ t >= 0 => rarity = Tier(t % 100)
            /\ (t >= 0 /\ (t % 100) \in DOMAIN BoundaryTier)
                  => rarity = BoundaryTier[t % 100]

\* A solve at a present-day timestamp of residue 59 was recorded as Rare.
C13_Witness ==
    /\ AttrSolved
    /\ SolvedEvent.event = "PuzzleSolved"
    /\ SolvedEvent.solution_time = 1700000059
    /\ ValueOf(asset.attribute_list, "rarity") = S_Rare

\* The number written by the last at most three digits of a decimal string:
\* the number the string writes, modulo 1000.
DecimalMod1000(str) ==
    LET n == Len(str)
        d(i) == IF i >= 1 THEN DigitValue(str[i]) ELSE 0
    IN  100 * d(n - 2) + 10 * d(n - 1) + d(n)

\* The selector of a type name.
TypeIndex(name) == CHOOSE i \in 0..2 : get_puzzle_type_name(i).val = name

\* The PuzzleMinted event of the mint that created the asset.
MintedEvent == events[1]

\* C14: puzzle generation is deterministic and overflow-free.  For every
\* minted asset the stored puzzle_number n is the function
\* ((slot mod 1000) + 1) * (difficulty + 1) + (type + 1) * 100 of the stored
\* mint_slot, difficulty and puzzle_type, computed in the integers, with
\* 101 <= n <= 256300; it is the number the PuzzleMinted event carries; and
\* slot 42, difficulty 1, math_factor give 186.
C14_PuzzleNumber ==
    (program = "attribute" /\ asset.live) =>
        LET list == asset.attribute_list
            n == ParseU64(ValueOf(list, "puzzle_number"))
            slot == DecimalMod1000(ValueOf(list, "mint_slot"))
            difficulty == Small(ParseU64(ValueOf(list, "difficulty")).val)
            type == TypeIndex(ValueOf(list, "puzzle_type"))
        IN  /\ n.ok /\ IsSmall(n.val)
            /\ Small(n.val) = (slot + 1) * (difficulty + 1) + (type + 1) * 100
            /\ Small(n.val) >= 101 /\ Small(n.val) <= 256300
            /\ MintedEvent.puzzle_number = n.val
            /\ (ValueOf(list, "mint_slot") = <<"4","2">> /\ difficulty = 1 /\ type = 0)
                  => ValueOf(list, "puzzle_number") = <<"1","8","6">>

\* A mint at the last u64 slot with the last u8 difficulty.
C14_Witness ==
    /\ program = "attribute" /\ asset.live
    /\ last.op = "mint"
    /\ ValueOf(asset.attribute_list, "mint_slot") = to_string(U64Max)
    /\ ValueOf(asset.attribute_list, "difficulty") = <<"2","5","5">>
    /\ ValueOf(asset.attribute_list, "puzzle_type") = S_pattern
    /\ ValueOf(asset.attribute_list, "puzzle_number") = <<"1","5","7","9","9","6">>

\* The names of the selectors 0, 1, 2.
TypeNames == <<S_math_factor, S_hash_riddle, S_pattern>>

\* C15: create rejects unknown puzzle types.  In every state, minted or
\* not, mint_puzzle_nft with a selector outside {0, 1, 2} fails with
\* InvalidPuzzleType whatever the CPI would do, leaves the asset account as
\* it is and emits nothing; with a selector in {0, 1, 2} it never fails with
\* InvalidPuzzleType, and when it succeeds the stored puzzle_type is
\* math_factor, hash_riddle or pattern respectively.
C15_UnknownTypeRejected ==
    program = "attribute" =>
        \A payer \in Keys, t \in GenTypes, d \in Difficulties, slot \in Slots,
           c \in {"ok", "fail1"} :
            LET out == mint_puzzle_nft(asset, payer, "Puzzle", "uri0", t, d, slot, c)
            IN  /\ t \notin {0, 1, 2} =>
                      /\ out.result = "InvalidPuzzleType"
                      /\ out.asset = asset
                      /\ out.emitted = <<>>
                /\ t \in {0, 1, 2} =>
                      /\ out.result # "InvalidPuzzleType"
                      /\ out.result = "Ok" =>
                            /\ Lookup(out.asset.attribute_list, "puzzle_type")
                                  = <<TypeNames[t + 1]>>
                            /\ out.emitted[1].puzzle_type = TypeNames[t + 1]

\* A mint with an unknown selector was refused and no asset exists.
C15_Witness ==
    /\ program = "attribute"
    /\ last.op = "mint"
    /\ last.result = "InvalidPuzzleType"
    /\ asset = NoAsset
    /\ events = <<>>

\* The asset is live, carries the plugin, is not marked solved, and its
\* puzzle attributes are readable: the owner's solve reaches verification.
ReachesVerification(a) ==
    /\ a.live
    /\ ~PluginMissing(a)
    /\ ~ListSolved(a.attribute_list)
    /\ ~PuzzleUnreadable(a)

\* C16: verification rejects unknown puzzle types.  When the stored
\* puzzle_type is none of math_factor, hash_riddle, pattern, a solve by the
\* owner that reaches verification fails with InvalidPuzzleType for every
\* candidate and leaves the asset as it is.
C16_UnknownTypeNotVerified ==
    (/\ program = "attribute"
     /\ ReachesVerification(asset)
     /\ StoredType(asset.attribute_list)
           \notin {S_math_factor, S_hash_riddle, S_pattern})
    => \A s \in Candidates, u \in NewUris, t \in Timestamps, c \in CpiOutcomes :
          LET out == solve_puzzle(asset, asset.owner, s, u, t, c)
          IN  /\ out.result = "InvalidPuzzleType"
              /\ out.asset = asset

\* The canonical keys of a puzzle's attribute list.
RequiredKeys ==
    {"puzzle_type", "difficulty", "puzzle_number", "solution_hash", "solved", "mint_slot"}

\* The values the list holds for solved and puzzle_number, where it holds
\* them, are a well-formed "false" and a decimal u64.
WellFormedValues(list) ==
    /\ HasKey(list, "solved") => ValueOf(list, "solved") = S_false
    /\ HasKey(list, "puzzle_number") => ParseU64(ValueOf(list, "puzzle_number")).ok

\* C17: decode requires every canonical key.  On a live asset with the
\* plugin whose list lacks one of puzzle_type, difficulty, puzzle_number,
\* solution_hash, solved, mint_slot and is otherwise that of an unsolved
\* puzzle, a solve by the owner fails with PuzzleNotFound or
\* AttributeNotFound for every candidate and leaves the asset as it is.
C17_MissingKeyRejected ==
    (/\ program = "attribute"
     /\ asset.live /\ asset.has_attributes
     /\ WellFormedValues(asset.attribute_list)
     /\ \E key \in RequiredKeys : ~HasKey(asset.attribute_list, key))
    => \A s \in Candidates, u \in NewUris, t \in Timestamps, c \in CpiOutcomes :
          LET out == solve_puzzle(asset, asset.owner, s, u, t, c)
          IN  /\ out.result \in {"PuzzleNotFound", "AttributeNotFound"}
              /\ out.asset = asset

\* C18: decode rejects unparseable values.  On a live asset whose list
\* holds every canonical key, with either a puzzle_number that is not a
\* decimal u64 (solved being "false") or a solved value that is neither
\* "true" nor "false" (puzzle_number being a decimal u64), a solve by the
\* owner fails with FailedToParsePuzzleData for every candidate and leaves
\* the asset as it is: such a solved value is not read as unsolved.
C18_UnparseableRejected ==
    (/\ program = "attribute"
     /\ asset.live /\ asset.has_attributes
     /\ \A key \in RequiredKeys : HasKey(asset.attribute_list, key)
     /\ \/ /\ ~ParseU64(ValueOf(asset.attribute_list, "puzzle_number")).ok
           /\ ValueOf(asset.attribute_list, "solved") = S_false
        \/ /\ ParseU64(ValueOf(asset.attribute_list, "puzzle_number")).ok
           /\ ValueOf(asset.attribute_list, "solved") \notin {S_true, S_false})
    => \A s \in Candidates, u \in NewUris, t \in Timestamps, c \in CpiOutcomes :
          LET out == solve_puzzle(asset, asset.owner, s, u, t, c)
          IN  /\ out.result = "FailedToParsePuzzleData"
              /\ out.asset = asset

\* The keys of a list, in order.
KeysOf(list) == [i \in 1..Len(list) |-> list[i].key]

\* Candidates for a puzzle with number n: zero, one, a small number, n
\* itself and the value whose one-round image is the commitment of n.
RoundTripCandidates(n) == {U64(0), U64(1), U64(7), n, HashRound(HashRound(n))}

\* C19: encode/decode round trip between mint and solve.  The list mint
\* writes consists of exactly puzzle_type, difficulty, puzzle_number,
\* solution_hash, solved, mint_slot in that order, with solved = "false" and
\* no solve key; puzzle_type and puzzle_number read back as the generated
\* values (those of the PuzzleMinted event) and solution_hash as the
\* commitment of the generated number; and solve_puzzle by the owner never
\* fails to decode the list: it judges the candidate against the generated
\* number (math_factor) or the generated commitment (hash_riddle, pattern).
C19_MintSolveRoundTrip ==
    (program = "attribute" /\ asset.live) =>
        LET list == asset.attribute_list
            n == MintedEvent.puzzle_number
        IN  /\ KeysOf(list) = <<"puzzle_type", "difficulty", "puzzle_number",
                               "solution_hash", "solved", "mint_slot">>
            /\ ValueOf(list, "solved") = S_false
            /\ ValueOf(list, "puzzle_type") = MintedEvent.puzzle_type
            /\ ParseU64(ValueOf(list, "puzzle_number")) = [ok |-> TRUE, val |-> n]
            /\ ValueOf(list, "solution_hash") = Commitment(n)
            /\ \A s \in RoundTripCandidates(n) :
                  LET r == solve_puzzle(asset, asset.owner, s, NoUri, 9, "ok").result
                  IN  IF MintedEvent.puzzle_type = S_math_factor
                      THEN r = IF IsZero(s) THEN "Abort"
                               ELSE IF Divides(s, n) THEN "Ok"
                               ELSE "IncorrectSolution"
                      ELSE r = IF FormatHex(HashRound(s)) = Commitment(n) THEN "Ok"
                               ELSE "IncorrectSolution"

\* A hash_riddle minted at the last u64 slot.
C19_Witness ==
    /\ program = "attribute" /\ asset.live
    /\ last.op = "mint" /\ last.result = "Ok"
    /\ ValueOf(asset.attribute_list, "puzzle_type") = S_hash_riddle
    /\ ValueOf(asset.attribute_list, "mint_slot") = to_string(U64Max)
    /\ ValueOf(asset.attribute_list, "solved") = S_false

\* x with bit i (0 the lowest) flipped.
FlipBit(x, i) ==
    Xor(x, [j \in 1..8 |-> IF j = (i \div 8) + 1 THEN Pow2(i % 8) ELSE 0])

\* The candidates and each of them with its lowest bit, bit 59 or its
\* highest bit flipped.
UniqueCandidates ==
    Candidates \cup { FlipBit(s, i) : s \in Candidates, i \in {0, 59, 63} }

\* The candidates the owner's solve of the asset accepts.
Accepted ==
    { s \in UniqueCandidates :
        solve_puzzle(asset, asset.owner, s, NoUri, 9, "ok").result = "Ok" }

\* The commitment map followed by hex is injective on the candidates.
HashImagesDistinct ==
    \A s1, s2 \in UniqueCandidates :
        FormatHex(HashRound(s1)) = FormatHex(HashRound(s2)) => s1 = s2

\* C20: hash-commitment solutions are unique.  For an unsolved hash_riddle
\* or pattern puzzle the owner's solve accepts at most one candidate: no
\* second value, in particular none that differs from an accepted one in a
\* single bit, is accepted; x -> hex(x * 31 + 17 mod 2^64) is injective.
C20_HashSolutionUnique ==
    (AttrUnsolved /\ StoredType(asset.attribute_list) # S_math_factor) =>
        /\ Cardinality(Accepted) <= 1
        /\ \A s \in Accepted, i \in {0, 59, 63} : FlipBit(s, i) \notin Accepted
        /\ HashImagesDistinct

\* An unsolved hash puzzle with an accepted candidate, on which a solve
\* with another candidate has just been refused.
C20_Witness ==
    /\ AttrUnsolved
    /\ StoredType(asset.attribute_list) = S_hash_riddle
    /\ Cardinality(Accepted) = 1
    /\ last.op = "solve"
    /\ last.caller = asset.owner
    /\ last.result = "IncorrectSolution"

(***************************************************************************)
(* Solve attempts and transfers on one minted puzzle.                      *)
(***************************************************************************)
NextMinted == Solve \/ Transfer

SpecMinted == InitRarity /\ [][NextMinted]_vars

(***************************************************************************)
(* C21: the URI and the successful solve                                   *)
(***************************************************************************)
\* The URI a successful solve with argument new_uri leaves on the asset.
ExpectedUri(uri, new_uri) == IF new_uri = NoUri THEN uri ELSE new_uri[1]

\* C21: the URI of a live asset changes only in a solve that succeeds and in
\* the same step turns solved from false to true; a solve that fails leaves
\* the asset as it was; and from the state before the step every successful
\* solve by the caller leaves the old URI when it carries no new URI and
\* leaves u when it carries the new URI u.
C21_Step ==
    \/ AssetKept
    \/ program # "attribute"
    \/ ~asset.live
    \/ /\ last'.op = "solve" => last'.result = "Ok"
       /\ asset'.uri # asset.uri =>
              /\ last'.op = "solve"
              /\ ListUnsolved(asset.attribute_list)
              /\ ListSolved(asset'.attribute_list)
       /\ last'.op = "solve" =>
              \A solution \in Candidates, new_uri \in NewUris,
                 timestamp \in Timestamps, cpi \in CpiOutcomes :
                 LET out == solve_puzzle(asset, last'.caller, solution, new_uri,
                                         timestamp, cpi)
                 IN  IF out.result = "Ok"
                     THEN out.asset.uri = ExpectedUri(asset.uri, new_uri)
                     ELSE out.asset = asset

C21_UriTiedToSolve == [][C21_Step]_vars

\* A solved asset that carries the new URI of its solve.
C21_Witness ==
    /\ AttrSolved
    /\ last.op = "solve" /\ last.result = "Ok"
    /\ asset.uri \notin MintUris

(***************************************************************************)
(* Helper modules auth.rs, nft.rs, puzzle.rs and puzzle_utils.rs.  No      *)
(* instruction calls them; each is applied to arguments drawn from bounded *)
(* sets, and `last` records the call and what it returned.                 *)
(***************************************************************************)
\* Result<T>: Ok(v) and Err(e).
Ok(v) == [ok |-> TRUE, val |-> v]
Err(e) == [ok |-> FALSE, err |-> e]

\* Mutant: the mint of the token account is not compared.
verify_nft_owner_NoMintCheck(asset_account, token_account, owner_key) ==
    IF ~asset_account.readable THEN Err("InvalidAccountData")
    ELSE IF token_account.owner # owner_key THEN Ok(FALSE)
    ELSE IF CmpBytes(token_account.amount, U64(1)) < 0 THEN Ok(FALSE)
    ELSE Ok(TRUE)

\* auth::verify_nft_owner.  asset_account is the account as deserialisation
\* sees it: readable or not, and the mint it names.
verify_nft_owner(asset_account, token_account, owner_key) ==
    IF ~asset_account.readable THEN Err("InvalidAccountData")
    ELSE IF token_account.owner # owner_key THEN Ok(FALSE)
    ELSE IF CmpBytes(token_account.amount, U64(1)) < 0 THEN Ok(FALSE)
    ELSE IF token_account.mint # asset_account.mint THEN Ok(FALSE)
    ELSE Ok(TRUE)

(***************************************************************************)
(* nft.rs: update_nft_after_solve                                          *)
(***************************************************************************)
PluginAttribute(trait_type, value) == [trait_type |-> trait_type, value |-> value]

S_LegendarySolver == S_Legendary \o <<" ","S","o","l","v","e","r">>
S_unknown == <<"?","?","?">>

RECURSIVE UpdatedData(_)
\* The inner loop over one Attributes plugin: solved and hidden_trait are
\* rewritten where they stand, solve_time is skipped, the rest is cloned.
UpdatedData(data) ==
    IF data = <<>> THEN <<>>
    ELSE LET attr == Head(data)
             rest == UpdatedData(Tail(data))
         IN  IF attr.trait_type = "solved"
             THEN <<PluginAttribute("solved", S_true)>> \o rest
             ELSE IF attr.trait_type = "hidden_trait"
             THEN <<PluginAttribute("hidden_trait", S_LegendarySolver)>> \o rest
             ELSE IF attr.trait_type = "solve_time" THEN rest
             ELSE <<attr>> \o rest

RECURSIVE UpdatedPlugins(_)
\* The outer loop: the data of every plugin of type Attributes, in order.
UpdatedPlugins(plugins) ==
    IF plugins = <<>> THEN <<>>
    ELSE IF Head(plugins).plugin_type = "Attributes"
         THEN UpdatedData(Head(plugins).data) \o UpdatedPlugins(Tail(plugins))
         ELSE UpdatedPlugins(Tail(plugins))

AttributesPlugin(data) == [plugin_type |-> "Attributes", data |-> data]

\* nft::update_nft_after_solve as a function of the asset it reads, its
\* arguments and the outcome of the update CPI; Ok carries the asset as the
\* update leaves it.
update_nft_after_solve(asset_data, current_slot, new_uri, cpi) ==
    IF ~asset_data.readable THEN Err("InvalidAccountData")
    ELSE
    LET updated_attributes ==
            UpdatedPlugins(asset_data.plugins)
                \o <<PluginAttribute("solve_time", to_string(current_slot))>>
    IN  IF cpi # "ok" THEN Err("CpiError")
        ELSE Ok([asset_data EXCEPT
                    !.plugins = <<AttributesPlugin(updated_attributes)>>,
                    !.uri = UpdatedUri(@, new_uri)])

(***************************************************************************)
(* puzzle.rs.  solana_program::hash::hash is SHA-256; the model does not   *)
(* compute it: a digest is 32 bytes drawn from a set, and the operators    *)
(* below take the digest where the code computes it.                       *)
(***************************************************************************)
\* The bs58 alphabet and the ASCII code of each of its characters.
Base58Chars ==
    << "1","2","3","4","5","6","7","8","9",
       "A","B","C","D","E","F","G","H","J","K","L","M","N","P","Q","R","S","T",
       "U","V","W","X","Y","Z",
       "a","b","c","d","e","f","g","h","i","j","k","m","n","o","p","q","r","s",
       "t","u","v","w","x","y","z" >>
Base58Codes ==
    [i \in 1..58 |->
        IF i <= 9 THEN 48 + i
        ELSE IF i <= 17 THEN 55 + i
        ELSE IF i <= 22 THEN 56 + i
        ELSE IF i <= 33 THEN 57 + i
        ELSE IF i <= 44 THEN 63 + i
        ELSE 64 + i]

Reverse(x) == [i \in 1..Len(x) |-> x[Len(x) + 1 - i]]

RECURSIVE LeadingZeros(_)
LeadingZeros(bytes) ==
    IF bytes = <<>> \/ Head(bytes) # 0 THEN 0 ELSE 1 + LeadingZeros(Tail(bytes))

RECURSIVE DivHalves(_, _, _)
\* Long division of the little-endian byte string x, with carry above its
\* top byte, by d: the upper half first, its remainder carried into the lower.
DivHalves(x, d, carry) ==
    IF Len(x) = 0 THEN [q |-> <<>>, r |-> carry]
    ELSE IF Len(x) = 1
    THEN [q |-> <<(carry * 256 + x[1]) \div d>>, r |-> (carry * 256 + x[1]) % d]
    ELSE CHOOSE out \in UNION
            { { [q |-> lo.q \o hi.q, r |-> lo.r] :
                lo \in {DivHalves(SubSeq(x, 1, Len(x) \div 2), d, hi.r)} } :
              hi \in {DivHalves(SubSeq(x, (Len(x) \div 2) + 1, Len(x)), d, carry)} } : TRUE

\* The three base-58 digits of r < 58^3, without leading zero digits when
\* nothing stands before them.
Base58Triple(r, leading) ==
    LET all == << Base58Chars[(r \div 3364) + 1], Base58Chars[((r \div 58) % 58) + 1],
                  Base58Chars[(r % 58) + 1] >>
    IN  IF ~leading THEN all
        ELSE IF r >= 3364 THEN all
        ELSE IF r >= 58 THEN SubSeq(all, 2, 3)
        ELSE SubSeq(all, 3, 3)

RECURSIVE Base58Digits(_)
\* The base-58 digits of the nonzero little-endian number x, most significant
\* first, three digits to a division by 58^3.
Base58Digits(x) ==
    CHOOSE digits \in
        { IF IsZero(qr.q) THEN Base58Triple(qr.r, TRUE)
          ELSE Base58Digits(qr.q) \o Base58Triple(qr.r, FALSE) :
          qr \in {DivHalves(x, 195112, 0)} } : TRUE

\* format!("{}", Hash): the digest, a big-endian number, in base 58, with one
\* "1" for each leading zero byte.
Base58(digest) ==
    [i \in 1..LeadingZeros(digest) |-> "1"]
        \o IF IsZero(digest) THEN <<>> ELSE Base58Digits(Reverse(digest))

\* str::as_bytes on a string of bs58 characters.
as_bytes(str) ==
    [i \in 1..Len(str) |-> Base58Codes[CHOOSE k \in 1..58 : Base58Chars[k] = str[i]]]

\* puzzle::generate_puzzle as a function of hash_result = hash(seed).
puzzle_generate_puzzle(hash_result) ==
    LET first == hash_result[1]
        doubled == ((first % 45) + 10) * 2
    IN  [number |-> U64(IF doubled < 20 THEN 20 ELSE doubled),
         hash |-> hash_result,
         puzzle_type |-> IF first % 2 = 0 THEN "MathFactor" ELSE "HashRiddle"]

\* PuzzleType::to_string
PuzzleType_to_string(puzzle_type) ==
    IF puzzle_type = "MathFactor" THEN S_math_factor ELSE S_hash_riddle

\* puzzle::create_puzzle_attributes
create_puzzle_attributes(puzzle_params) ==
    << PluginAttribute("puzzle_type", PuzzleType_to_string(puzzle_params.puzzle_type)),
       PluginAttribute("puzzle_number", to_string(puzzle_params.number)),
       PluginAttribute("solved", S_false),
       PluginAttribute("hidden_trait", S_unknown) >>
    \o IF puzzle_params.puzzle_type = "HashRiddle"
       THEN <<PluginAttribute("puzzle_hash", Base58(puzzle_params.hash))>>
       ELSE <<>>

RECURSIVE ScanData(_, _)
\* The match on trait_type over one plugin's data; found holds the three
\* Options, the last occurrence of a key deciding.
ScanData(data, found) ==
    IF data = <<>> THEN found
    ELSE LET attr == Head(data)
             parsed == ParseU64(attr.value)
             next ==
                 IF attr.trait_type = "puzzle_number"
                 THEN [found EXCEPT !.puzzle_number =
                                        IF parsed.ok THEN Some(parsed.val) ELSE None]
                 ELSE IF attr.trait_type = "puzzle_type"
                 THEN [found EXCEPT !.puzzle_type = Some(attr.value)]
                 ELSE IF attr.trait_type = "puzzle_hash"
                 THEN [found EXCEPT !.puzzle_hash = Some(attr.value)]
                 ELSE found
         IN  ScanData(Tail(data), next)

RECURSIVE ScanPlugins(_, _)
ScanPlugins(plugins, found) ==
    IF plugins = <<>> THEN found
    ELSE ScanPlugins(Tail(plugins),
                     IF Head(plugins).plugin_type = "Attributes"
                     THEN ScanData(Head(plugins).data, found) ELSE found)

\* solution_hash.to_bytes()[0..4] == hash_str.as_bytes()[0..4]
PrefixMatches(solution_hash, hash_str) ==
    SubSeq(solution_hash, 1, 4) = SubSeq(as_bytes(hash_str), 1, 4)

\* puzzle::verify_solution as a function of the asset it reads, the solution
\* and solution_hash = hash(&solution.to_le_bytes()).  "Abort" is a panic.
verify_solution(asset_data, solution, solution_hash) ==
    IF ~asset_data.readable THEN Err("InvalidAccountData")
    ELSE
    LET found == ScanPlugins(asset_data.plugins,
                             [puzzle_number |-> None, puzzle_type |-> None,
                              puzzle_hash |-> None])
    IN  IF found.puzzle_number = None THEN Err("InvalidAccountData")
        ELSE IF found.puzzle_type = None THEN Err("InvalidAccountData")
        ELSE IF found.puzzle_type[1] = S_math_factor
        THEN Ok(~IsZero(solution) /\ IsZero(Rem(found.puzzle_number[1], solution)))
        ELSE IF found.puzzle_type[1] = S_hash_riddle
        THEN IF found.puzzle_hash = None THEN Err("InvalidAccountData")
             ELSE IF Len(found.puzzle_hash[1]) < 4 THEN Err("Abort")
             ELSE Ok(PrefixMatches(solution_hash, found.puzzle_hash[1]))
        ELSE Err("InvalidAccountData")

(***************************************************************************)
(* puzzle_utils.rs.  Sha256 is not computed: the digest of x is the record *)
(* [sha256 |-> x], so two digests are equal exactly when their inputs are. *)
(***************************************************************************)
Sha256(bytes) == [sha256 |-> bytes]

PUZZLE_TYPE_MATH == 0
PUZZLE_TYPE_HASH == 1
PUZZLE_TYPE_PATTERN == 2

\* generate_math_puzzle: the number seed % base and the digest of its least
\* divisor in 2..number-1, of 1 when it has none.
generate_math_puzzle(difficulty, seed) ==
    LET base == CASE difficulty = 0 -> 100
                  [] difficulty = 1 -> 1000
                  [] difficulty = 2 -> 10000
                  [] OTHER -> 100000
        target_number == Small(Rem(seed, U64(base)))
        divisors == { i \in 2..(target_number - 1) : target_number % i = 0 }
        factor == IF divisors = {} THEN 1
                  ELSE CHOOSE i \in divisors : \A j \in divisors : i <= j
    IN  [puzzle_data |-> NatToBytes(target_number, 4),
         solution_hash |-> Sha256(NatToBytes(factor, 4))]

\* String::as_bytes on a decimal string.
DecimalBytes(str) == [i \in 1..Len(str) |-> 48 + DigitValue(str[i])]

\* generate_hash_puzzle: a prefix of seed bytes mod 16 and the digest of the
\* seed's decimal text.
generate_hash_puzzle(difficulty, seed) ==
    LET prefix_length == CASE difficulty = 0 -> 1
                           [] difficulty = 1 -> 2
                           [] difficulty = 2 -> 3
                           [] OTHER -> 4
    IN  [puzzle_data |-> [i \in 1..prefix_length |-> seed[((i - 1) % 8) + 1] % 16],
         solution_hash |-> Sha256(DecimalBytes(to_string(seed)))]

\* One application of the pattern to the current element.
PatternStep(pattern_type, current) ==
    CASE pattern_type = 0 -> (current + 2) % 100
      [] pattern_type = 1 -> (current * 2) % 100
      [] OTHER -> (current * current) % 100

RECURSIVE PatternRun(_, _, _)
\* The loop: n elements from current on, and the element after them.
PatternRun(pattern_type, current, n) ==
    IF n = 0 THEN [sequence |-> <<>>, current |-> current]
    ELSE LET rest == PatternRun(pattern_type, PatternStep(pattern_type, current), n - 1)
         IN  [sequence |-> <<current>> \o rest.sequence, current |-> rest.current]

\* generate_pattern_puzzle: a sequence and the digest of its next element.
generate_pattern_puzzle(difficulty, seed) ==
    LET sequence_length == CASE difficulty = 0 -> 3
                             [] difficulty = 1 -> 4
                             [] difficulty = 2 -> 5
                             [] OTHER -> 6
        tens == DivSmall(seed, 10)
        run == PatternRun(DivSmall(tens.q, 3).r, tens.r, sequence_length)
    IN  [puzzle_data |-> run.sequence,
         solution_hash |-> Sha256(NatToBytes(run.current, 4))]

\* puzzle_utils::generate_puzzle
puzzle_utils_generate_puzzle(puzzle_type, difficulty, seed) ==
    CASE puzzle_type = PUZZLE_TYPE_MATH -> generate_math_puzzle(difficulty, seed)
      [] puzzle_type = PUZZLE_TYPE_HASH -> generate_hash_puzzle(difficulty, seed)
      [] puzzle_type = PUZZLE_TYPE_PATTERN -> generate_pattern_puzzle(difficulty, seed)
      [] OTHER -> generate_math_puzzle(difficulty, seed)

(***************************************************************************)
(* The helper modules applied to their inputs                              *)
(***************************************************************************)
\* A 32-byte digest with the given leading bytes and zeros after them.
Digest(prefix) == prefix \o [i \in 1..(32 - Len(prefix)) |-> 0]

\* Every value of the first digest byte.
SeedDigests == { Digest(<<b>>) : b \in 0..255 }

\* Digests of seeds for verification: two of hash riddles, two of factor
\* puzzles (24 and 22).
VerifyDigests == { Digest(<<1>>), Digest(<<255, 1, 2, 3>>), Digest(<<2>>), Digest(<<46, 9>>) }

\* The digest whose leading 4 bytes are the leading 4 bytes of the text of d.
TextDigest(d) == Digest(SubSeq(as_bytes(Base58(d)), 1, 4))

SolutionDigests == VerifyDigests \cup { TextDigest(d) : d \in VerifyDigests }

\* An account that holds no asset.
EmptyAccount == [readable |-> FALSE, uri |-> "", plugins |-> <<>>]

\* nft::mint_nft as a function of the asset account it is given, the mint, the
\* uri, the puzzle parameters and the outcome of the create CPI; Ok carries the
\* asset as the create leaves it.  The create of Metaplex Core fails on an
\* account that already holds an asset, and invoke_signed's error is returned.
mint_nft(asset_account, mint, uri, puzzle_params, cpi) ==
    LET attributes == create_puzzle_attributes(puzzle_params)
    IN  IF cpi # "ok" \/ asset_account.readable THEN Err("CpiError")
        ELSE Ok([readable |-> TRUE, mint |-> mint, uri |-> uri,
                 plugins |-> <<AttributesPlugin(attributes)>>])

\* The asset mint_nft creates from the seed digest d.
CreatedAsset(d) == mint_nft(EmptyAccount, 1, "uri0", puzzle_generate_puzzle(d), "ok").val

\* Assets to update: created ones, ones updated before, ones in which the
\* update authority has put further pairs around an earlier solve_time, and
\* an account that does not hold an asset.
UpdateLists ==
    LET created == { CreatedAsset(d).plugins[1].data : d \in {Digest(<<1>>), Digest(<<2>>)} }
        updated == { UpdatedData(l) \o <<PluginAttribute("solve_time", to_string(U64(7)))>> :
                     l \in created }
        edited == { l \o <<PluginAttribute("note", S_unknown)>> : l \in updated }
                    \cup { <<PluginAttribute("solve_time", to_string(U64(7)))>> \o l :
                           l \in created }
    IN  created \cup updated \cup edited

UpdateAssets ==
    { [readable |-> TRUE, uri |-> "uri0", plugins |-> <<AttributesPlugin(l)>>] :
      l \in UpdateLists }
    \cup { [readable |-> FALSE, uri |-> "", plugins |-> <<>>] }

\* The calls: a helper and the arguments it is given.
VerifyNftOwnerCalls ==
    { [op |-> "call", fn |-> "verify_nft_owner",
       asset_account |-> [readable |-> readable, mint |-> asset_mint],
       token_account |-> [owner |-> owner, amount |-> amount, mint |-> mint],
       owner_key |-> owner_key] :
      readable \in BOOLEAN, asset_mint \in Keys, owner \in Keys,
      amount \in {U64(0), U64(1), U64(2), U64Max}, mint \in Keys, owner_key \in Keys }

UpdateNftAfterSolveCalls ==
    { [op |-> "call", fn |-> "update_nft_after_solve", asset_data |-> asset_data,
       current_slot |-> current_slot, new_uri |-> new_uri, cpi |-> cpi] :
      asset_data \in UpdateAssets, current_slot \in {U64(42), U64(1000)},
      new_uri \in NewUris, cpi \in {"ok", "fail1"} }

MintNftCalls ==
    { [op |-> "call", fn |-> "nft::mint_nft", payer |-> payer,
       asset_account |-> asset_account, mint |-> mint, name |-> name, uri |-> uri,
       hash_result |-> hash_result, cpi |-> cpi] :
      payer \in Keys, asset_account \in {EmptyAccount, CreatedAsset(Digest(<<2>>))},
      mint \in Keys, name \in Names, uri \in {"uri0", "uri1"},
      hash_result \in VerifyDigests, cpi \in {"ok", "fail1"} }

UtilsGeneratePuzzleCalls ==
    { [op |-> "call", fn |-> "puzzle_utils::generate_puzzle", puzzle_type |-> puzzle_type,
       difficulty |-> difficulty, seed |-> seed] :
      puzzle_type \in GenTypes, difficulty \in {0, 1, 2, 3, 255},
      seed \in {U64(0), U64(7), U64(12), U64(91), U64(123456), U64Max} }

GeneratePuzzleCalls ==
    { [op |-> "call", fn |-> "puzzle::generate_puzzle", hash_result |-> hash_result] :
      hash_result \in SeedDigests }

VerifySolutionCalls ==
    { [op |-> "call", fn |-> "puzzle::verify_solution", hash_result |-> hash_result,
       asset_data |-> CreatedAsset(hash_result), solution |-> solution,
       solution_hash |-> solution_hash] :
      hash_result \in VerifyDigests, solution \in {U64(0), U64(1), U64(5), U64(11)},
      solution_hash \in SolutionDigests }

InitHelpers ==
    /\ program = "helpers"
    /\ overflow_checks = TRUE
    /\ asset = NoAsset
    /\ puzzle_account = NoPuzzleAccount
    /\ nft = NoNft
    /\ events = <<>>
    /\ pending = EmptyBag
    /\ last \in VerifyNftOwnerCalls \cup MintNftCalls \cup UpdateNftAfterSolveCalls
                \cup UtilsGeneratePuzzleCalls \cup GeneratePuzzleCalls
                \cup VerifySolutionCalls

\* The helper fn is called / has returned.
Called(fn) == last.op = "call" /\ last.fn = fn
Returned(fn) == last.op = "return" /\ last.fn = fn

\* The call in `last` returns result; nothing else changes.
Return(result) ==
    /\ last' = [op |-> "return", fn |-> last.fn, call |-> last, result |-> result]
    /\ UNCHANGED <<program, overflow_checks, asset, puzzle_account, nft, events, pending>>

VerifyNftOwner ==
    /\ Called("verify_nft_owner")
    /\ Return(verify_nft_owner(last.asset_account, last.token_account, last.owner_key))

MintNft ==
    /\ Called("nft::mint_nft")
    /\ Return(mint_nft(last.asset_account, last.mint, last.uri,
                       puzzle_generate_puzzle(last.hash_result), last.cpi))

UpdateNftAfterSolve ==
    /\ Called("update_nft_after_solve")
    /\ Return(update_nft_after_solve(last.asset_data, last.current_slot, last.new_uri,
                                     last.cpi))

UtilsGeneratePuzzle ==
    /\ Called("puzzle_utils::generate_puzzle")
    /\ Return(puzzle_utils_generate_puzzle(last.puzzle_type, last.difficulty, last.seed))

GeneratePuzzle ==
    /\ Called("puzzle::generate_puzzle")
    /\ Return(puzzle_generate_puzzle(last.hash_result))

VerifySolution ==
    /\ Called("puzzle::verify_solution")
    /\ Return(verify_solution(last.asset_data, last.solution, last.solution_hash))

NextHelpers ==
    \/ VerifyNftOwner
    \/ MintNft
    \/ UpdateNftAfterSolve
    \/ UtilsGeneratePuzzle
    \/ GeneratePuzzle
    \/ VerifySolution

SpecHelpers == InitHelpers /\ [][NextHelpers]_vars

(***************************************************************************)
(* C22: the ownership guard of auth.rs                                     *)
(***************************************************************************)
\* C22: for a readable asset verify_nft_owner returns Ok(true) when the token
\* account's owner is the claimed identity, its amount is at least 1 and its
\* mint is the asset's mint, and Ok(false), never an error, in every other
\* combination.
C22_OwnershipGuard ==
    (Returned("verify_nft_owner") /\ last.call.asset_account.readable) =>
        /\ last.result.ok
        /\ last.result.val =
              (/\ last.call.token_account.owner = last.call.owner_key
               /\ ~IsZero(last.call.token_account.amount)
               /\ last.call.token_account.mint = last.call.asset_account.mint)

\* The guard has accepted the holder of the largest amount.
C22_Witness ==
    /\ Returned("verify_nft_owner")
    /\ last.call.asset_account.readable
    /\ last.result = Ok(TRUE)
    /\ last.call.token_account.amount = U64Max

(***************************************************************************)
(* C23: who may solve through the account program                          *)
(***************************************************************************)
\* C23: in the account program solved goes from false to true only in a solve
\* whose signer is the holder of the token, and a solve signed by anyone else
\* fails and leaves the puzzle account and the metadata URI as they were.
C23_Step ==
    \/ program # "account"
    \/ /\ (~puzzle_account.solved /\ puzzle_account'.solved) =>
              (last'.op = "solve" /\ last'.caller = nft.holder)
       /\ (last'.op = "solve" /\ last'.caller # nft.holder) =>
              /\ last'.result # "Ok"
              /\ puzzle_account' = puzzle_account
              /\ nft'.metadata_uri = nft.metadata_uri

C23_SolveIsOwnershipGated == [][C23_Step]_vars

(***************************************************************************)
(* C24: every minted puzzle can be solved                                  *)
(***************************************************************************)
\* C24: from every unsolved puzzle that mint_puzzle_nft has written, for any
\* slot, difficulty and type, the owner has a candidate with which solve_puzzle
\* succeeds and marks the puzzle solved: a divisor of the number for
\* math_factor, and for hash_riddle and pattern a value whose commitment as
\* solve_puzzle computes it is the stored solution_hash.
C24_MintedIsSolvable ==
    AttrUnsolved =>
        LET list == asset.attribute_list
            n == ParseU64(ValueOf(list, "puzzle_number")).val
        IN  \E s \in RoundTripCandidates(n) :
                LET out == solve_puzzle(asset, asset.owner, s, NoUri, 9, "ok")
                IN  /\ out.result = "Ok"
                    /\ ListSolved(out.asset.attribute_list)
                    /\ IF ValueOf(list, "puzzle_type") = S_math_factor
                       THEN Divides(s, n)
                       ELSE FormatHex(HashRound(s)) = ValueOf(list, "solution_hash")

\* An unsolved pattern puzzle minted at difficulty 255.
C24_Witness ==
    /\ AttrUnsolved
    /\ last.op = "mint" /\ last.result = "Ok"
    /\ ValueOf(asset.attribute_list, "puzzle_type") = S_pattern
    /\ ValueOf(asset.attribute_list, "difficulty") = to_string(U64(255))

(***************************************************************************)
(* C25: attribute keys stay unique                                         *)
(***************************************************************************)
UniqueKeys(list) ==
    \A i, j \in 1..Len(list) : list[i].key = list[j].key => i = j

\* C25: a solve attempt, failed or successful, on an asset whose attribute
\* keys are unique leaves them unique; and the list mint_puzzle_nft writes, for
\* each type, has unique keys and keeps them under every solve by its owner.
C25_Step ==
    \/ AssetKept
    \/ /\ UniqueKeys(asset.attribute_list) => UniqueKeys(asset'.attribute_list)
       /\ \A t \in {0, 1, 2} :
             LET minted == [asset EXCEPT !.attribute_list = MintedList(t)]
                 n == ParseU64(ValueOf(MintedList(t), "puzzle_number")).val
             IN  /\ UniqueKeys(MintedList(t))
                 /\ \A s \in RoundTripCandidates(n) \ {U64(0)} :
                       UniqueKeys(solve_puzzle(minted, minted.owner, s, NoUri, 9,
                                               "ok").asset.attribute_list)

C25_KeysStayUnique == [][C25_Step]_vars

\* A solve has succeeded on a list with unique keys to which a foreign
\* rarity pair had been added.
C25_Witness ==
    /\ AttrSolved
    /\ last.op = "solve" /\ last.result = "Ok"
    /\ UniqueKeys(asset.attribute_list)
    /\ HasKey(asset.attribute_list, "color")
    /\ Find(asset.attribute_list, "rarity") < Find(asset.attribute_list, "solver")

(***************************************************************************)
(* C26: positions under update_nft_after_solve                             *)
(***************************************************************************)
UpdatedTraits == {"solved", "hidden_trait", "solve_time"}

\* The value update_nft_after_solve gives a trait it updates.
UpdatedValue(trait_type, current_slot) ==
    CASE trait_type = "solved" -> S_true
      [] trait_type = "hidden_trait" -> S_LegendarySolver
      [] trait_type = "solve_time" -> to_string(current_slot)

\* Do the pairs of old other than the updated traits stand in new with the
\* same values and in the same order, does every updated trait of old stand
\* at its old position with its new value, and is there one solve_time?
PositionsKept(old, new, current_slot) ==
    /\ SelectSeq(new, LAMBDA a : a.trait_type \notin UpdatedTraits)
          = SelectSeq(old, LAMBDA a : a.trait_type \notin UpdatedTraits)
    /\ \A i \in 1..Len(old) :
          old[i].trait_type \in UpdatedTraits =>
              /\ i <= Len(new)
              /\ new[i] = PluginAttribute(old[i].trait_type,
                                          UpdatedValue(old[i].trait_type, current_slot))
    /\ Len(SelectSeq(new, LAMBDA a : a.trait_type = "solve_time")) = 1

\* C26: update_nft_after_solve copies every pair other than solved,
\* hidden_trait and solve_time with its value and in the same relative order,
\* leaves solved, hidden_trait and an existing solve_time at their positions
\* with the new values, and leaves exactly one solve_time pair.
C26_UpdateKeepsPositions ==
    (Returned("update_nft_after_solve") /\ last.result.ok) =>
        PositionsKept(last.call.asset_data.plugins[1].data,
                      last.result.val.plugins[1].data, last.call.current_slot)

(***************************************************************************)
(* C27: puzzle_utils::generate_puzzle and unknown types                    *)
(***************************************************************************)
\* C27: for a puzzle_type other than PUZZLE_TYPE_MATH, PUZZLE_TYPE_HASH and
\* PUZZLE_TYPE_PATTERN, puzzle_utils::generate_puzzle fails with
\* InvalidPuzzleType and returns no puzzle.
C27_UtilsRejectsUnknownType ==
    (/\ Returned("puzzle_utils::generate_puzzle")
     /\ last.call.puzzle_type \notin {PUZZLE_TYPE_MATH, PUZZLE_TYPE_HASH, PUZZLE_TYPE_PATTERN}) =>
        last.result = Err("InvalidPuzzleType")

(***************************************************************************)
(* C28: the divisors of the number puzzle::generate_puzzle returns         *)
(***************************************************************************)
\* The divisors of n other than 1 and n.
NontrivialDivisors(n) == { d \in 2..(n - 1) : n % d = 0 }

\* C28: for every first byte b of the seed digest the number of
\* puzzle::generate_puzzle is (b mod 45 + 10) * 2, at least 20, and has at
\* least 3 divisors other than 1 and itself.
C28_EnoughFactors ==
    Returned("puzzle::generate_puzzle") =>
        LET b == last.call.hash_result[1]
            n == Small(last.result.number)
        IN  /\ IsSmall(last.result.number)
            /\ n = ((b % 45) + 10) * 2
            /\ n >= 20
            /\ Cardinality(NontrivialDivisors(n)) >= 3

(***************************************************************************)
(* C29: what puzzle::verify_solution compares for a hash riddle            *)
(***************************************************************************)
\* C29: on a hash_riddle asset written by create_puzzle_attributes from the
\* seed digest, verify_solution returns Ok(true) when the leading 4 bytes of
\* hash(solution) are the leading 4 bytes of the seed digest and Ok(false)
\* otherwise.
C29_HashRiddleComparesDigests ==
    (/\ Returned("puzzle::verify_solution")
     /\ puzzle_generate_puzzle(last.call.hash_result).puzzle_type = "HashRiddle") =>
        last.result = Ok(SubSeq(last.call.solution_hash, 1, 4)
                            = SubSeq(last.call.hash_result, 1, 4))

(***************************************************************************)
(* C30: the solution check of the account program                          *)
(***************************************************************************)
\* The unbounded product solution * seed reduced modulo a modulus that is
\* not zero and is below 2^23.
ExactProductMod(solution, seed, modulus) ==
    U64(DivSmall(FullMul(solution, seed), Small(modulus)).r)

\* C30: on an unsolved puzzle account, whatever the build, solve_puzzle with
\* any candidate (the metadata update succeeding) ends in Ok or in
\* InvalidSolution, also when modulus is 0 and when solution * seed does not
\* fit 64 bits, and it ends in Ok exactly when the unbounded product
\* solution * seed modulo modulus is target.
C30_CheckIsTotalAndExact ==
    (program = "account" /\ puzzle_account.init /\ ~puzzle_account.solved) =>
        \A solution \in Candidates :
            LET out == lib_solve_puzzle(puzzle_account, nft, 1, solution, "uri1",
                                        U64(42), "ok", overflow_checks)
            IN  /\ out.result \in {"Ok", "InvalidSolution"}
                /\ ~IsZero(puzzle_account.modulus) =>
                      (out.result = "Ok") =
                          (ExactProductMod(solution, puzzle_account.seed,
                                           puzzle_account.modulus)
                             = puzzle_account.target)

(***************************************************************************)
(* C31: rarity and the residue of the timestamp                            *)
(***************************************************************************)
\* The residue of t modulo 100 in 0..99, for t of either sign.
Residue100(t) == ((t % 100) + 100) % 100

\* C31: the rarity of a solve at timestamp t, negative or not, is the tier
\* of the residue of t modulo 100 in 0..99, so that timestamps congruent
\* modulo 100 get the same tier: t = -1 gets Common and t = -95 Legendary.
C31_RarityOfResidue ==
    AttrSolved =>
        /\ SolvedEvent.rarity = Tier(Residue100(SolvedEvent.solution_time))
        /\ ValueOf(asset.attribute_list, "rarity") = SolvedEvent.rarity
====
